---- MODULE Spec2Model ----
(***************************************************************************)
(* NTmusic audio engine (packages/audio-core): the shared-memory spectrum  *)
(* seqlock, the shared-memory control ring, the playback state machine    *)
(* with its device callback, the output renderer slots and the transcoder *)
(* reader.  Every part has its own specification over the same variables; *)
(* a specification leaves the variables of the other parts unchanged.     *)
(***************************************************************************)
EXTENDS Integers, Sequences, FiniteSets, TLC

VARIABLES
    seq,          \* spectrum region: the u32 seqlock counter at offset 0
    bins,         \* spectrum region: the f32 bin area, index 1..SpectrumBins
    writer,       \* write_spectrum_shared: its position and locals
    reader,       \* SpectrumReader (read_into): its fields, position and locals
    published,    \* history: published[s] = bin array of the write that ended with seq = s
    ctl_write,    \* control region: the u32 write index at offset 0
    ctl_read,     \* control region: the u32 read index at offset 4
    slots,        \* control region: the command slots, index 0..capacity-1
    pusher,       \* ControlWriter::push in the host: its position and locals
    drainer,      \* drain_control_commands in the callback: its position and locals
    pushed,       \* history: the commands whose push returned true, in push order
    applied,      \* history: the commands the drain applied, in the order applied
    state,        \* EngineState behind SharedState.inner
    ctlq,         \* control region seen whole: the commands between read and write
    output_stream,\* SharedState.output_stream holds a shared-mode stream
    poisoned,     \* the state mutex is poisoned (a thread panicked holding it)
    scenario,     \* history: how far the last S1 or S6 scenario has run
    exclusive_stream, \* SharedState.exclusive_stream holds an exclusive renderer
    target_windows,   \* the build: cfg!(target_os = "windows")
    th,           \* dispatcher threads: the handler each runs and its locals
    built,        \* history: the device each renderer was built for, and the
                  \* device_id of each thread's state_snapshot
    stream_process,   \* SharedState.stream_process and the transcoder child it holds
    stream_thread,    \* SharedState.stream_thread and the reader thread it holds
    rb,           \* samples in the ring buffer between reader and callback
    stopper,      \* the dispatcher operation taken step by step: its position
    resp,         \* the last response of a handler that can answer an error
    rendered,     \* history: what the last device callback wrote into its
                  \* buffer, next to EngineState.underrun_count
    dither,       \* EngineState.dither_rng and the error history, with the
                  \* locals of apply_dither_if_needed in the callback
    transcoders,  \* the transcoder children and reader threads by identity,
                  \* the two slots, and the handlers that start and stop them
    call          \* a call of a function of the signal path: arguments, result

slVars == <<seq, bins, writer, reader, published>>

ringVars == <<ctl_write, ctl_read, slots, pusher, drainer, pushed, applied>>

playVars == <<ctlq, output_stream, poisoned, scenario>>

outVars == <<exclusive_stream, target_windows, th, built>>

streamVars == <<stream_process, stream_thread, rb, stopper>>

deviceVars == <<rendered, dither, transcoders>>

notSeqlock ==
    <<ringVars, state, playVars, outVars, streamVars, resp, call, deviceVars>>

notRing == <<slVars, playVars, outVars, streamVars, resp, call, deviceVars>>

notPlayback == <<slVars, ringVars, outVars, call, deviceVars>>

engineVars ==
    <<slVars, ringVars, state, playVars, outVars, streamVars, resp, deviceVars>>

notPlay == <<notPlayback, resp>>

notOutput == <<slVars, ringVars, ctlq, poisoned, scenario, target_windows,
               streamVars, resp, call, deviceVars>>

vars == <<engineVars, call>>

(***************************************************************************)
(* Bounds of the model and constants of the program.                       *)
(***************************************************************************)
SpectrumBins == 2            \* bins of the region (NTMUSIC_SPECTRUM_BINS)
MaxWrites == 3               \* write_spectrum_shared calls explored

BinIdx == 1..SpectrumBins
Magnitude == {1, 2}          \* two distinguishable non-zero magnitudes
ZeroBins == [i \in BinIdx |-> 0]

(***************************************************************************)
(* 4.B  Spectrum shared region: writer (engine) and reader (host).         *)
(*                                                                         *)
(* The bin area is plain memory in a file mapped by two processes.  The    *)
(* writer's first store (Release) orders only the accesses before it, so   *)
(* the plain stores into the bin area that follow it in program order may  *)
(* take effect before it; its second store (Release) is ordered after all  *)
(* of them.  Likewise the reader's second load (Acquire) orders only the   *)
(* accesses after it, so the plain loads of the copy that precede it in    *)
(* program order may be satisfied after it.  The plain accesses race; a    *)
(* racing load returns whatever the location holds when it is satisfied.   *)
(***************************************************************************)

\* lib.rs 712, 718-725: the array one call leaves in the bin area:
\* spectrum[..len] followed by zeros, len = min(bins, spectrum.len()).
PaddedBins(spectrum) ==
    [i \in BinIdx |-> IF i <= Len(spectrum) THEN spectrum[i] ELSE 0]

\* The analyzer's output has exactly `bins` entries (SpectrumAnalyzer::new).
\* Flat spectra of two different magnitudes are enough to tell a mix apart.
SpectrumInputs == {[i \in BinIdx |-> m] : m \in Magnitude}

\* lib.rs 716: seq.load(Relaxed).wrapping_add(1).  The u32 wraps at 2^32, an
\* even number, so wrapping keeps the parity; the writes explored here stay
\* far below it.
StartSeq(s) == s + 1

\* lib.rs 726: start_seq.wrapping_add(1)
EndSeqStuck(start_seq) == start_seq
EndSeq(start_seq) == start_seq + 1

WriterIdle == [pc |-> "idle", start_seq |-> 0, src |-> ZeroBins,
               odd_stored |-> FALSE, written |-> {}]

ReaderIdle == [pc |-> "idle", round |-> 0, seq_start |-> 0, seq_end |-> 0,
               ended |-> FALSE, copied |-> {}, target |-> ZeroBins,
               last_seq |-> 0, ret |-> -1]

InitSeqlock ==
    /\ seq = 0                       \* a new file is zero-filled by set_len
    /\ bins = ZeroBins
    /\ writer = WriterIdle
    /\ reader = ReaderIdle           \* SpectrumReader::new: last_seq = 0
    /\ published = [s \in {0} |-> ZeroBins]

\* lib.rs 698-716: entry, the length computation and the Relaxed load.
WriteBegin(spectrum) ==
    /\ writer.pc = "idle"
    /\ seq < 2 * MaxWrites
    /\ writer' = [pc |-> "cs", start_seq |-> StartSeq(seq),
                  src |-> PaddedBins(spectrum), odd_stored |-> FALSE,
                  written |-> {}]
    /\ UNCHANGED <<seq, bins, reader, published>>
    /\ UNCHANGED notSeqlock

\* lib.rs 717: seq.store(start_seq, Release)
WriteStoreStart ==
    /\ writer.pc = "cs"
    /\ ~writer.odd_stored
    /\ seq' = writer.start_seq
    /\ writer' = [writer EXCEPT !.odd_stored = TRUE]
    /\ UNCHANGED <<bins, reader, published>>
    /\ UNCHANGED notSeqlock

\* lib.rs 718-725: one plain store into the bin area.  Nothing orders it
\* after the store of line 717.
WriteBin(i) ==
    /\ writer.pc = "cs"
    /\ i \notin writer.written
    /\ bins' = [bins EXCEPT ![i] = writer.src[i]]
    /\ writer' = [writer EXCEPT !.written = @ \cup {i}]
    /\ UNCHANGED <<seq, reader, published>>
    /\ UNCHANGED notSeqlock

\* lib.rs 726: seq.store(start_seq + 1, Release): after every access above.
WriteStoreEnd ==
    /\ writer.pc = "cs"
    /\ writer.odd_stored
    /\ writer.written = BinIdx
    /\ seq' = EndSeq(writer.start_seq)
    /\ published' = [s \in DOMAIN published \cup {EndSeq(writer.start_seq)} |->
                        IF s = EndSeq(writer.start_seq) THEN writer.src
                        ELSE published[s]]
    /\ writer' = [WriterIdle EXCEPT !.start_seq = writer.start_seq]
    /\ UNCHANGED <<bins, reader>>
    /\ UNCHANGED notSeqlock

\* core lib.rs 157-168: a call of read_into with a target of `bins` floats.
ReadCall ==
    /\ reader.pc = "idle"
    /\ reader' = [reader EXCEPT !.pc = "load", !.round = 0, !.ret = -1]
    /\ UNCHANGED <<seq, bins, writer, published>>
    /\ UNCHANGED notSeqlock

\* core lib.rs 191-194: both rounds failed: zero the target, return 0.
ReaderGiveUp(r) == [r EXCEPT !.pc = "idle", !.target = ZeroBins, !.ret = 0]

\* core lib.rs 168: the next round of `for _ in 0..2`, or the exit of the loop.
ReaderNextRound(r) ==
    IF r.round + 1 < 2
    THEN [r EXCEPT !.pc = "load", !.round = @ + 1]
    ELSE ReaderGiveUp(r)

\* core lib.rs 169-175: seq_start = seq.load(Acquire) and the two tests on it.
ReadLoadStart ==
    /\ reader.pc = "load"
    /\ reader' =
         IF seq = reader.last_seq /\ seq % 2 = 0
         THEN [reader EXCEPT !.pc = "idle", !.ret = 0]
         ELSE IF seq % 2 = 1
         THEN ReaderNextRound(reader)
         ELSE [reader EXCEPT !.pc = "copy", !.seq_start = seq,
                             !.ended = FALSE, !.copied = {}]
    /\ UNCHANGED <<seq, bins, writer, published>>
    /\ UNCHANGED notSeqlock

\* core lib.rs 176-184: one plain load of the copy (len = bins = target.len()).
ReadBin(i) ==
    /\ reader.pc = "copy"
    /\ i \notin reader.copied
    /\ reader' = [reader EXCEPT !.target[i] = bins[i], !.copied = @ \cup {i}]
    /\ UNCHANGED <<seq, bins, writer, published>>
    /\ UNCHANGED notSeqlock

\* core lib.rs 185: seq_end = seq.load(Acquire).  Nothing orders the plain
\* loads of the copy before it.
ReadLoadEnd ==
    /\ reader.pc = "copy"
    /\ ~reader.ended
    /\ reader' = [reader EXCEPT !.seq_end = seq, !.ended = TRUE]
    /\ UNCHANGED <<seq, bins, writer, published>>
    /\ UNCHANGED notSeqlock

\* core lib.rs 186-190: accept (last_seq = seq_end, return len) or go round.
ReadCheck ==
    /\ reader.pc = "copy"
    /\ reader.ended
    /\ reader.copied = BinIdx
    /\ reader' =
         IF reader.seq_start = reader.seq_end /\ reader.seq_end % 2 = 0
         THEN [reader EXCEPT !.pc = "idle", !.last_seq = reader.seq_end,
                             !.ret = SpectrumBins]
         ELSE ReaderNextRound(reader)
    /\ UNCHANGED <<seq, bins, writer, published>>
    /\ UNCHANGED notSeqlock

NextSeqlock ==
    \/ \E spectrum \in SpectrumInputs : WriteBegin(spectrum)
    \/ WriteStoreStart
    \/ \E i \in BinIdx : WriteBin(i)
    \/ WriteStoreEnd
    \/ ReadCall
    \/ ReadLoadStart
    \/ \E i \in BinIdx : ReadBin(i)
    \/ ReadLoadEnd
    \/ ReadCheck

(***************************************************************************)
(* 4.H  EngineState: the fields the modelled operations read or write.     *)
(* Volumes are in tenths (1.0 = VolumeOne), SEEK values in whole seconds,  *)
(* sample rates in frames per second of a scaled-down clock.               *)
(***************************************************************************)
VolumeOne == 10              \* lib.rs 881: volume: 1.0
DefaultRate == 2             \* lib.rs 874: sample_rate: 48_000, scaled down

Min(a, b) == IF a < b THEN a ELSE b
Max(a, b) == IF a > b THEN a ELSE b

\* lib.rs 882, 898: duration 0.0 and target_samplerate None.  A duration is
\* the quotient num / den of the frame count and the rate it was computed
\* from; Some(rate) of target_samplerate is the rate.
ZeroDuration == [num |-> 0, den |-> 1]
NoTarget == 0

\* lib.rs 868-914: initial_state()
\* Option<usize>::None of queue_index; Some(i) is i, counted from 0.
NoIndex == -1

\* lib.rs 1126, 2953: queue.iter().position(|track| track.path == path);
\* a track is taken as its path.
PositionOfLast(queue, path) ==
    IF \E i \in 1..Len(queue) : queue[i] = path
    THEN (CHOOSE i \in 1..Len(queue) :
             queue[i] = path /\ \A j \in (i + 1)..Len(queue) : queue[j] # path) - 1
    ELSE NoIndex

PositionOf(queue, path) ==
    IF \E i \in 1..Len(queue) : queue[i] = path
    THEN (CHOOSE i \in 1..Len(queue) :
             queue[i] = path /\ \A j \in 1..(i - 1) : queue[j] # path) - 1
    ELSE NoIndex

InitialState ==
    [mode |-> "idle", is_playing |-> FALSE, is_paused |-> FALSE,
     channels |-> 2, sample_rate |-> DefaultRate, data_len |-> 0,
     position |-> 0, played_frames |-> 0, buffered_frames |-> 0,
     volume |-> VolumeOne, exclusive_mode |-> FALSE, device_id |-> "none",
     stream_status |-> "idle", stream_url |-> "none",
     stream_error |-> "none", file_path |-> "none", queue |-> <<>>,
     queue_index |-> NoIndex,
     dither_enabled |-> TRUE, dither_type |-> "tpdf", dither_bits |-> 24,
     resampler_mode |-> "auto", resampler_quality |-> "hq",
     duration |-> ZeroDuration, target_samplerate |-> NoTarget]

(***************************************************************************)
(* 4.C  Control shared region: the host's ControlWriter (producer) and the *)
(* drain in the device callback (consumer).  Index loads are Acquire and   *)
(* index stores Release, so the slot accesses stay between them in         *)
(* program order; every atomic access and every slot store is one step.    *)
(***************************************************************************)
RingCapacity == 3            \* capacity of the mapped ring (NTMUSIC_CONTROL_CAPACITY)
MaxPushes == 4               \* accepted pushes explored

CONTROL_CMD_PLAY == 1
CONTROL_CMD_PAUSE == 2
CONTROL_CMD_STOP == 3
CONTROL_CMD_SEEK == 4
CONTROL_CMD_VOLUME == 5

SlotIdx == 0..(RingCapacity - 1)
EmptySlot == [cmd |-> 0, value |-> 0]      \* set_len zero-fills a new file

\* The (cmd, value) pairs the host pushes in the ring specification.
RingCommands ==
    {[cmd |-> CONTROL_CMD_PLAY, value |-> 0],
     [cmd |-> CONTROL_CMD_PAUSE, value |-> 0],
     [cmd |-> CONTROL_CMD_STOP, value |-> 0],
     [cmd |-> CONTROL_CMD_VOLUME, value |-> 3]}

\* core lib.rs 594: next = (write + 1) % capacity
NextIdx(write) == (write + 1) % RingCapacity

\* core lib.rs 595: if next == read { return Ok(false) }
RingFullNever(write, read) == FALSE
RingFull(write, read) == NextIdx(write) = read

\* lib.rs 692: read = (read + 1) % capacity
DrainStay(read) == read
DrainAdvance(read) == (read + 1) % RingCapacity

\* lib.rs 666-690: the match on the command tag.
ApplyCommand(st, cmd, value) ==
    CASE cmd = CONTROL_CMD_PLAY ->
           [st EXCEPT !.is_playing = TRUE, !.is_paused = FALSE]
      [] cmd = CONTROL_CMD_PAUSE ->
           [st EXCEPT !.is_paused = TRUE]
      [] cmd = CONTROL_CMD_STOP ->
           [st EXCEPT !.is_playing = FALSE, !.is_paused = FALSE,
                      !.position = IF st.mode = "file" THEN 0 ELSE @]
      [] cmd = CONTROL_CMD_SEEK ->
           IF st.mode = "file" /\ st.sample_rate > 0
           THEN [st EXCEPT !.position =
                     Min(Max(value, 0) * st.sample_rate,
                         st.data_len \div Max(st.channels, 1))]
           ELSE st
      [] cmd = CONTROL_CMD_VOLUME ->
           [st EXCEPT !.volume = Min(Max(value, 0), VolumeOne)]
      [] OTHER -> st

\* lib.rs 660-693: the commands of a log applied in order.
RECURSIVE ApplyAll(_, _)
ApplyAll(st, log) ==
    IF log = <<>> THEN st
    ELSE ApplyAll(ApplyCommand(st, Head(log).cmd, Head(log).value), Tail(log))

PusherIdle == [pc |-> "idle", cmd |-> 0, value |-> 0, write |-> 0, read |-> 0,
               ret |-> "none"]

DrainerIdle == [pc |-> "idle", read |-> 0, write |-> 0, processed |-> 0]

\* core lib.rs 577-578 and lib.rs 612-613: both constructors store 0 into the
\* two indices; the host pushes after the engine reported ready.
InitRing ==
    /\ ctl_write = 0
    /\ ctl_read = 0
    /\ slots = [i \in SlotIdx |-> EmptySlot]
    /\ pusher = PusherIdle
    /\ drainer = DrainerIdle
    /\ pushed = <<>>
    /\ applied = <<>>

\* core lib.rs 587-592: a call of push(cmd, value) and its load of write.
PushCall(c) ==
    /\ pusher.pc = "idle"
    /\ Len(pushed) < MaxPushes
    /\ pusher' = [pc |-> "load_read", cmd |-> c.cmd, value |-> c.value,
                  write |-> ctl_write, read |-> 0, ret |-> "none"]
    /\ UNCHANGED <<ctl_write, ctl_read, slots, drainer, pushed, applied, state>>
    /\ UNCHANGED notRing

\* core lib.rs 593-597: the load of read and the full test.
PushLoadRead ==
    /\ pusher.pc = "load_read"
    /\ pusher' =
         IF RingFull(pusher.write, ctl_read)
         THEN [pusher EXCEPT !.pc = "idle", !.read = ctl_read, !.ret = "false"]
         ELSE [pusher EXCEPT !.pc = "slot_cmd", !.read = ctl_read]
    /\ UNCHANGED <<ctl_write, ctl_read, slots, drainer, pushed, applied, state>>
    /\ UNCHANGED notRing

\* core lib.rs 601: *(cmd_ptr as *mut u32) = cmd
PushSlotCmd ==
    /\ pusher.pc = "slot_cmd"
    /\ slots' = [slots EXCEPT ![pusher.write].cmd = pusher.cmd]
    /\ pusher' = [pusher EXCEPT !.pc = "slot_value"]
    /\ UNCHANGED <<ctl_write, ctl_read, drainer, pushed, applied, state>>
    /\ UNCHANGED notRing

\* core lib.rs 602-604: the value and the two reserved words.
PushSlotValue ==
    /\ pusher.pc = "slot_value"
    /\ slots' = [slots EXCEPT ![pusher.write].value = pusher.value]
    /\ pusher' = [pusher EXCEPT !.pc = "store"]
    /\ UNCHANGED <<ctl_write, ctl_read, drainer, pushed, applied, state>>
    /\ UNCHANGED notRing

\* core lib.rs 606-607: write_idx.store(next, Release); Ok(true)
PushStoreWrite ==
    /\ pusher.pc = "store"
    /\ ctl_write' = NextIdx(pusher.write)
    /\ pushed' = Append(pushed, [cmd |-> pusher.cmd, value |-> pusher.value])
    /\ pusher' = [pusher EXCEPT !.pc = "idle", !.ret = "true"]
    /\ UNCHANGED <<ctl_read, slots, drainer, applied, state>>
    /\ UNCHANGED notRing

\* lib.rs 2368-2373, 654: the callback holds the state lock, enters the drain
\* and loads read.
DrainLoadRead ==
    /\ drainer.pc = "idle"
    /\ drainer' = [pc |-> "load_write", read |-> ctl_read, write |-> 0,
                   processed |-> 0]
    /\ UNCHANGED <<ctl_write, ctl_read, slots, pusher, pushed, applied, state>>
    /\ UNCHANGED notRing

\* lib.rs 655-659: the load of write and the empty test.  With the ring empty
\* the callback goes on (2374-2379) without a store.
DrainLoadWrite ==
    /\ drainer.pc = "load_write"
    /\ drainer' =
         IF drainer.read = ctl_write
         THEN DrainerIdle
         ELSE [drainer EXCEPT !.pc = "loop", !.write = ctl_write]
    /\ UNCHANGED <<ctl_write, ctl_read, slots, pusher, pushed, applied, state>>
    /\ UNCHANGED notRing

\* lib.rs 660: the loop condition
DrainMore(d) == d.read # d.write /\ d.processed < RingCapacity

\* lib.rs 661-693: one iteration: read the slot, apply it, advance.
DrainStep ==
    /\ drainer.pc = "loop"
    /\ DrainMore(drainer)
    /\ state' = ApplyCommand(state, slots[drainer.read].cmd,
                             slots[drainer.read].value)
    /\ applied' = Append(applied, slots[drainer.read])
    /\ drainer' = [drainer EXCEPT !.read = DrainAdvance(@),
                                  !.processed = @ + 1]
    /\ UNCHANGED <<ctl_write, ctl_read, slots, pusher, pushed>>
    /\ UNCHANGED notRing

\* lib.rs 695: read_idx.store(read, Release); the callback then zero-fills
\* or renders and releases the state lock.
DrainStoreRead ==
    /\ drainer.pc = "loop"
    /\ ~DrainMore(drainer)
    /\ ctl_read' = drainer.read
    /\ drainer' = [drainer EXCEPT !.pc = "idle"]
    /\ UNCHANGED <<ctl_write, slots, pusher, pushed, applied, state>>
    /\ UNCHANGED notRing

NextRing ==
    \/ \E c \in RingCommands : PushCall(c)
    \/ PushLoadRead
    \/ PushSlotCmd
    \/ PushSlotValue
    \/ PushStoreWrite
    \/ DrainLoadRead
    \/ DrainLoadWrite
    \/ DrainStep
    \/ DrainStoreRead

(***************************************************************************)
(* 4.I / 4.K  File playback: the dispatcher's operations, each taken whole *)
(* (they run one at a time here), the shared-mode build of                 *)
(* ensure_output_stream with resample_for_output, and the device callback. *)
(* The control region is taken as the queue of commands between its read   *)
(* and write index: a push and a drain are each one step.                  *)
(***************************************************************************)
MaxFrames == 3               \* frames of the longest file loaded
BurstCapacity == 5           \* capacity of the control ring in this part
MaxUnderruns == 2            \* underrun_count counted up to this
MaxPlayed == 4               \* played_frames counted up to this
RingSamples == 4             \* capacity of the sample ring buffer

\* Decoded files: interleaved samples at the default rate, 1 or 2 channels.
PlaybackFiles ==
    {[frames |-> f, channels |-> c, rate |-> DefaultRate] :
        f \in {MaxFrames - 1, MaxFrames}, c \in {1, 2}}

\* The default rate of a device that supports no range with the working rate.
FallbackRate == DefaultRate + 1

\* Lengths, in samples, of the buffers the device hands to the callback.
BufferSamples == {2, 4}

\* What building the shared stream meets: a supported range that matches
\* (lib.rs 2275-2288) or not, build_output_stream and play succeeding or not.
BuildOutcomes == [matched : BOOLEAN, build_ok : BOOLEAN]

\* lib.rs 2252-2255: with a stream held the build is not reached.
OutcomesFor(held) ==
    IF held THEN {[matched |-> TRUE, build_ok |-> TRUE]}
    ELSE BuildOutcomes

\* Single commands the host pushes in this part, and the burst of S6.
PlaybackCommands ==
    {[cmd |-> CONTROL_CMD_SEEK, value |-> 1],
     [cmd |-> CONTROL_CMD_STOP, value |-> 0]}

\* PAUSE as the host pushes it.
PauseCommand == [cmd |-> CONTROL_CMD_PAUSE, value |-> 0]

BurstCommands ==
    <<[cmd |-> CONTROL_CMD_PLAY, value |-> 0],
      [cmd |-> CONTROL_CMD_VOLUME, value |-> 3],
      [cmd |-> CONTROL_CMD_PAUSE, value |-> 0],
      [cmd |-> CONTROL_CMD_STOP, value |-> 0]>>

\* core lib.rs 594-597 on the queue: full when (write + 1) % capacity = read.
QueueFull(q) == Len(q) = BurstCapacity - 1

\* A stream_thread slot holding no handle.
NoThread == [status |-> "none", pc |-> "read", sample_count |-> 0]

\* lib.rs 1599-1603: the fields stop_stream writes in its locked section,
\* after the child is killed and the reader joined.
StopStreamKeepsBuffered(st) ==
    [st EXCEPT !.stream_status = "stopped", !.stream_error = "none",
               !.stream_url = "none"]

StopStreamFields(st) ==
    [st EXCEPT !.stream_status = "stopped", !.stream_error = "none",
               !.stream_url = "none", !.buffered_frames = 0]

\* lib.rs 2039-2099: resample_for_output(target_rate).  The buffer is taken
\* out of the state (2057) before the resampler runs; with the resampler
\* returning Ok (ok) the output has the input's frames scaled by the rate
\* ratio, with an Err the function returns at 2071 or 2075-2078.
ResampleOutcome(st, target_rate, ok) ==
    IF st.mode # "file" \/ st.data_len = 0 THEN st
    ELSE IF st.sample_rate = target_rate \/ target_rate = 0 THEN st
    ELSE IF ~ok THEN [st EXCEPT !.data_len = 0]
    ELSE LET new_len == (((st.data_len \div st.channels) * target_rate)
                            \div st.sample_rate) * st.channels
             scaled_pos == (st.position * target_rate) \div st.sample_rate
         IN  [st EXCEPT !.data_len = new_len,
                        !.sample_rate = target_rate,
                        !.duration = [num |-> new_len \div st.channels,
                                      den |-> target_rate],
                        !.position = Min(scaled_pos,
                                         new_len \div Max(st.channels, 1))]

ResampleForOutput(st, target_rate) == ResampleOutcome(st, target_rate, TRUE)

\* lib.rs 2268-2271: target_samplerate.unwrap_or(sample_rate); the floor of
\* 8000 is below every rate of the model.
TargetRate(st) ==
    IF st.target_samplerate = NoTarget THEN st.sample_rate
    ELSE st.target_samplerate

\* lib.rs 2252-2358 with exclusive_mode false and no exclusive renderer: the
\* state after ensure_output_stream, and whether a shared stream is held.
EnsureSharedStateWith(st, held, o, ok) ==
    IF held \/ o.matched \/ FallbackRate = TargetRate(st) THEN st
    ELSE ResampleOutcome(st, FallbackRate, ok)

EnsureSharedState(st, held, o) == EnsureSharedStateWith(st, held, o, TRUE)

EnsureSharedHeld(held, o) == held \/ o.build_ok

\* The path of a decoded file: the mono file and the stereo file on disk.
PathOf(f) == IF f.channels = 1 THEN "a.flac" ELSE "b.flac"

\* lib.rs 2938-2954: the fields load_file_impl installs.
LoadResamples(st, f) ==
    st.target_samplerate > 0 /\ st.target_samplerate # f.rate
FinalRate(st, f) ==
    IF LoadResamples(st, f) THEN st.target_samplerate ELSE f.rate
FinalFrames(st, f) ==
    IF LoadResamples(st, f)
    THEN (f.frames * st.target_samplerate) \div f.rate ELSE f.frames

InstallFile(st, f) ==
    [st EXCEPT !.data_len = FinalFrames(st, f) * f.channels,
               !.sample_rate = FinalRate(st, f),
               !.duration = [num |-> FinalFrames(st, f),
                             den |-> FinalRate(st, f)],
               !.channels = f.channels, !.position = 0,
               !.is_playing = FALSE, !.is_paused = FALSE, !.mode = "file",
               !.stream_status = "idle", !.file_path = PathOf(f),
               !.queue_index = PositionOf(st.queue, PathOf(f))]

\* lib.rs 2867-2960: load_file_impl of a file that exists, decodes and
\* resamples to the target rate; ok is the outcome of the resampler in
\* ensure_output_stream.
LoadFileWith(f, o, ok) ==
    /\ ~poisoned
    /\ stopper = "idle"
    /\ state' = EnsureSharedStateWith(
                    InstallFile(StopStreamFields(state), f),
                    output_stream, o, ok)
    /\ output_stream' = EnsureSharedHeld(output_stream, o)
    /\ scenario' = IF ctlq = <<>> THEN "loaded" ELSE "none"
    /\ UNCHANGED <<ctlq, poisoned>>
    /\ stream_process' = "none"
    /\ stream_thread' = NoThread
    /\ rb' = 0
    /\ UNCHANGED stopper
    /\ UNCHANGED notPlay

LoadFile(f, o) == LoadFileWith(f, o, TRUE)

\* lib.rs 2962-2971: play_impl
PlayWith(o, ok) ==
    /\ ~poisoned
    /\ stopper = "idle"
    /\ state' = EnsureSharedStateWith(
                    [state EXCEPT !.is_playing = TRUE, !.is_paused = FALSE],
                    output_stream, o, ok)
    /\ output_stream' = EnsureSharedHeld(output_stream, o)
    /\ scenario' = IF scenario = "loaded" THEN "playing" ELSE "none"
    /\ UNCHANGED <<ctlq, poisoned>>
    /\ UNCHANGED streamVars
    /\ UNCHANGED notPlay

Play(o) == PlayWith(o, TRUE)

\* lib.rs 2973-2980: pause_impl
Pause ==
    /\ ~poisoned
    /\ stopper = "idle"
    /\ state' = [state EXCEPT !.is_paused = TRUE]
    /\ scenario' = "none"
    /\ UNCHANGED <<ctlq, output_stream, poisoned>>
    /\ UNCHANGED streamVars
    /\ UNCHANGED notPlay

\* lib.rs 2982-2995: stop_impl
Stop ==
    /\ ~poisoned
    /\ state' = StopStreamFields(
                    [state EXCEPT !.is_playing = FALSE, !.is_paused = FALSE,
                                  !.position = 0, !.played_frames = 0,
                                  !.mode = "idle", !.buffered_frames = 0])
    /\ scenario' = "none"
    /\ UNCHANGED <<ctlq, output_stream, poisoned>>
    /\ stream_process' = "none"
    /\ stream_thread' = NoThread
    /\ UNCHANGED <<rb, stopper>>
    /\ UNCHANGED notPlay

\* No response recorded yet.
NoResponse == [op |-> "none", status |-> 0, count |-> 0]

\* lib.rs 3203-3229: seek_handler's tests, position in whole seconds (not
\* negative): the request is served when the mode is "file", the rate is
\* not 0 and the frame asked for is below the frame count.
SeekNeverServed(st, secs) == FALSE
SeekServed(st, secs) ==
    /\ st.mode = "file"
    /\ st.sample_rate # 0
    /\ secs * st.sample_rate < st.data_len \div Max(st.channels, 1)

\* lib.rs 3203-3229: what seek_handler does to the engine
SeekEffect(secs) ==
    /\ ~poisoned
    /\ state' = IF SeekServed(state, secs)
                THEN [state EXCEPT !.position = secs * state.sample_rate]
                ELSE state
    /\ scenario' = "none"
    /\ UNCHANGED <<ctlq, output_stream, poisoned>>
    /\ UNCHANGED streamVars
    /\ UNCHANGED notPlayback

\* seek_handler where the response is not looked at
Seek(secs) == SeekEffect(secs) /\ UNCHANGED resp

\* seek_handler with its response: OK when served, BAD_REQUEST otherwise
SeekRequest(secs) ==
    /\ SeekEffect(secs)
    /\ resp' = [op |-> "seek",
                status |-> IF SeekServed(state, secs) THEN 200 ELSE 400,
                count |-> 0]

\* lib.rs 1427-1437: stop_capture_impl
CaptureStop ==
    /\ ~poisoned
    /\ state' = [StopStreamFields(state) EXCEPT
                     !.mode = "idle", !.is_playing = FALSE,
                     !.is_paused = FALSE]
    /\ scenario' = "none"
    /\ UNCHANGED <<ctlq, output_stream, poisoned>>
    /\ stream_process' = "none"
    /\ stream_thread' = NoThread
    /\ UNCHANGED <<rb, stopper>>
    /\ UNCHANGED notPlay

\* lib.rs 2997-3024: configure_output_impl(None, None) with exclusive_mode
\* false: the shared stream is dropped and built again.
ConfigureOutputDefault(o) ==
    /\ ~poisoned
    /\ ~state.exclusive_mode
    /\ state' = EnsureSharedState([state EXCEPT !.device_id = "none"],
                                  FALSE, o)
    /\ output_stream' = EnsureSharedHeld(FALSE, o)
    /\ scenario' = "none"
    /\ UNCHANGED <<ctlq, poisoned>>
    /\ UNCHANGED streamVars
    /\ UNCHANGED notPlay

\* core lib.rs 586-609: one push; a full ring rejects it.
HostPush(c) ==
    /\ ~QueueFull(ctlq)
    /\ ctlq' = Append(ctlq, c)
    /\ scenario' = "none"
    /\ UNCHANGED <<state, output_stream, poisoned>>
    /\ UNCHANGED streamVars
    /\ UNCHANGED notPlay

\* S6: PLAY, VOLUME(0.3), PAUSE, STOP pushed in one burst, all accepted.
HostBurst ==
    /\ Len(ctlq) + Len(BurstCommands) <= BurstCapacity - 1
    /\ ctlq' = ctlq \o BurstCommands
    /\ scenario' = "burst"
    /\ UNCHANGED <<state, output_stream, poisoned>>
    /\ UNCHANGED streamVars
    /\ UNCHANGED notPlay

\* lib.rs 648-696 on the queue: one drain applies every pending command
\* (fewer than capacity) in order and empties the ring.
DrainNone(st, q) == st
DrainAll(st, q) == ApplyAll(st, q)

\* lib.rs 2382-2396: the "file" arm of the callback for a buffer of `samples`
\* samples.  The slice data[start..start+available] panics when start is
\* beyond the end of the data.
FileArmPanics(st) == st.position * Max(st.channels, 1) > st.data_len

FileArm(st, samples) ==
    LET channels == Max(st.channels, 1)
        frame_count == samples \div channels
        start == st.position * channels
        end == Min(start + frame_count * channels, st.data_len)
        available == Max(end - start, 0)
    IN  [st EXCEPT !.is_playing = IF available < samples THEN FALSE ELSE @,
                   !.position = @ + frame_count]

\* lib.rs 2397-2415: the "stream" | "capture" arm: pops up to `samples`
\* samples of the ring buffer.
Consumed(samples) == Min(samples, rb)

StreamArm(st, samples) ==
    LET channels == Max(st.channels, 1)
    IN  [st EXCEPT
           !.buffered_frames = Max(@ - Consumed(samples) \div channels, 0),
           !.played_frames = @ + samples \div channels]

\* lib.rs 2361-2457: fill_output_buffer on the state; played_frames is
\* counted up to MaxPlayed.
CallbackCore(samples) ==
    /\ ~poisoned
    /\ output_stream
    /\ LET drained == DrainAll(state, ctlq)
           active == drained.is_playing /\ ~drained.is_paused
           renders == active /\ drained.mode = "file"
           streams == active /\ drained.mode \in {"stream", "capture"}
       IN  /\ ctlq' = <<>>
           /\ streams =>
                 drained.played_frames
                    + samples \div Max(drained.channels, 1) <= MaxPlayed
           /\ rb' = IF streams THEN rb - Consumed(samples) ELSE rb
           /\ IF renders /\ FileArmPanics(drained)
              THEN /\ state' = drained
                   /\ poisoned' = TRUE
                   /\ scenario' = "none"
              ELSE /\ state' = CASE renders -> FileArm(drained, samples)
                                 [] streams -> StreamArm(drained, samples)
                                 [] OTHER -> drained
                   /\ poisoned' = FALSE
                   /\ scenario' =
                        CASE scenario = "burst" -> "burst_cb"
                          [] scenario = "playing" /\ state'.is_playing
                               -> "playing"
                          [] scenario = "playing" /\ ~state'.is_playing
                               -> "exhausted"
                          [] OTHER -> "none"
    /\ UNCHANGED <<output_stream, stream_process, stream_thread, stopper>>

\* The callback where its buffer and underrun_count are not looked at.
Callback(samples) == CallbackCore(samples) /\ UNCHANGED notPlay

\* lib.rs 904: underrun_count starts at 0; no callback has run.
NoRendered == [arm |-> "none", data |-> <<>>, underrun_count |-> 0]

\* lib.rs 2370-2375, 2390-2394, 2400-2407, 2416-2420: where each sample of
\* the buffer comes from: a sample copied from the file buffer, one popped
\* from the ring, or the constant 0.0.  The volume and the limiter keep
\* 0.0 (lib.rs 2423-2431).
WrittenActive(st, samples) ==
    LET channels == Max(st.channels, 1)
        start == st.position * channels
        end == Min(start + (samples \div channels) * channels, st.data_len)
        available == Max(end - start, 0)
    IN  [i \in 1..samples |->
            CASE st.mode = "file" /\ i <= available -> "data"
              [] st.mode \in {"stream", "capture"} /\ i <= Consumed(samples)
                   -> "ring"
              [] OTHER -> "zero"]

Written(st, samples) ==
    IF ~st.is_playing \/ st.is_paused
    THEN [i \in 1..samples |-> "zero"]
    ELSE WrittenActive(st, samples)

\* lib.rs 2370, 2381-2421: the branch the callback takes.
Arm(st) ==
    CASE ~st.is_playing \/ st.is_paused -> "silent"
      [] st.mode \in {"file", "stream", "capture"} -> st.mode
      [] OTHER -> "idle"

\* lib.rs 2411-2413: an underrun is counted in the stream arm only.
Underrun(st, samples) ==
    /\ st.is_playing /\ ~st.is_paused
    /\ st.mode \in {"stream", "capture"}
    /\ Consumed(samples) < samples

\* The callback with its buffer and underrun_count; a callback that panics
\* has written nothing yet.  underrun_count is counted up to MaxUnderruns.
Render(samples) ==
    /\ CallbackCore(samples)
    /\ LET drained == DrainAll(state, ctlq)
       IN  IF poisoned'
           THEN UNCHANGED rendered
           ELSE /\ Underrun(drained, samples) =>
                      rendered.underrun_count < MaxUnderruns
                /\ rendered' =
                      [arm |-> Arm(drained),
                       data |-> Written(drained, samples),
                       underrun_count |->
                          IF Underrun(drained, samples)
                          THEN rendered.underrun_count + 1
                          ELSE rendered.underrun_count]
    /\ UNCHANGED <<slVars, ringVars, outVars, call, resp, dither, transcoders>>

NextPlayback ==
    \/ \E f \in PlaybackFiles, o \in OutcomesFor(output_stream) : LoadFile(f, o)
    \/ \E o \in OutcomesFor(output_stream) : Play(o)
    \/ Pause
    \/ Stop
    \/ \E secs \in {0, 1} : Seek(secs)
    \/ CaptureStop
    \/ \E o \in BuildOutcomes : ConfigureOutputDefault(o)
    \/ \E c \in PlaybackCommands : HostPush(c)
    \/ HostBurst
    \/ \E samples \in BufferSamples : Callback(samples)

(***************************************************************************)
(* 4.G / 4.K  Transcoder teardown: stop taken one lock section at a time,  *)
(* with the reader thread and the device callback running between its      *)
(* steps.  Dispatcher operations are taken one at a time (no other handler *)
(* starts while stop is in progress) and the control ring is empty.        *)
(***************************************************************************)
StreamChannels == {1, 2}

\* lib.rs 1462-1474: update_stream_status
update_stream_status(st, status, err) ==
    [st EXCEPT !.stream_status = status, !.stream_error = err]

\* lib.rs 1538-1590: start_stream_reader stores the child and a reader
\* thread about to read.
StartedThread == [status |-> "running", pc |-> "read", sample_count |-> 0]

\* lib.rs 3320-3355 / 1389-1425: load_stream_handler and start_capture_impl
\* up to the spawn: previous transcoder stopped, descriptor set, ring reset.
StreamStart(st, mode, channels) ==
    [StopStreamFields(st) EXCEPT
       !.mode = mode,
       !.sample_rate = IF mode = "stream" /\ st.target_samplerate # NoTarget
                       THEN st.target_samplerate ELSE DefaultRate,
       !.channels = channels, !.duration = ZeroDuration,
       !.data_len = 0, !.position = 0, !.played_frames = 0,
       !.buffered_frames = 0, !.stream_status = "starting",
       !.stream_url = IF mode = "stream" THEN "url" ELSE "device"]

\* The rest of both handlers: spawn failure sets status "error" and
\* returns before ensure_output_stream.
StartTranscoder(mode, channels, spawn_ok, o) ==
    /\ ~poisoned
    /\ stopper = "idle"
    /\ rb' = 0
    /\ scenario' = "none"
    /\ IF spawn_ok
       THEN /\ state' = EnsureSharedState(
                           update_stream_status(
                               StreamStart(state, mode, channels),
                               "running", "none"),
                           output_stream, o)
            /\ output_stream' = EnsureSharedHeld(output_stream, o)
            /\ stream_process' = "running"
            /\ stream_thread' = StartedThread
       ELSE /\ state' = update_stream_status(
                           StreamStart(state, mode, channels),
                           "error", "spawn failed")
            /\ stream_process' = "none"
            /\ stream_thread' = NoThread
            /\ UNCHANGED output_stream
    /\ UNCHANGED <<ctlq, poisoned, stopper>>
    /\ UNCHANGED notPlay

\* lib.rs 3320-3355: load_stream_handler (channels = 2)
LoadStream(spawn_ok, o) == StartTranscoder("stream", 2, spawn_ok, o)

\* lib.rs 1389-1425, 1511-1537: start_capture_impl; spawn_capture_ffmpeg
\* is an error on every build but Windows.
CaptureStart(channels, spawn_ok, o) ==
    /\ spawn_ok => target_windows
    /\ StartTranscoder("capture", channels, spawn_ok, o)

\* The transcoder ends by itself: its handle stays in the slot.
ChildExit ==
    /\ stream_process = "running"
    /\ stream_process' = "exited"
    /\ UNCHANGED <<state, playVars, stream_thread, rb, stopper>>
    /\ UNCHANGED notPlay

\* lib.rs 1555-1569: the reader decodes one sample and try_push-es it; a
\* full ring drops it.  Bytes already in the pipe are read after the child
\* is gone.
ReaderPush ==
    /\ stream_thread.status = "running"
    /\ stream_thread.pc = "read"
    /\ IF rb < RingSamples
       THEN LET count == stream_thread.sample_count + 1
                whole == count % Max(state.channels, 1) = 0
            IN  /\ rb' = rb + 1
                /\ stream_thread' =
                      [stream_thread EXCEPT
                         !.sample_count = IF whole THEN 0 ELSE count,
                         !.pc = IF whole THEN "count" ELSE "read"]
       ELSE UNCHANGED <<rb, stream_thread>>
    /\ UNCHANGED <<state, playVars, stream_process, stopper>>
    /\ UNCHANGED notPlay

\* lib.rs 1570-1574: every `channels` samples, buffered_frames += 1 under
\* the state lock (skipped when the lock is poisoned).
ReaderCount ==
    /\ stream_thread.status = "running"
    /\ stream_thread.pc = "count"
    /\ state' = IF poisoned THEN state
                ELSE [state EXCEPT !.buffered_frames = @ + 1]
    /\ stream_thread' = [stream_thread EXCEPT !.pc = "read"]
    /\ UNCHANGED <<playVars, stream_process, rb, stopper>>
    /\ UNCHANGED notPlay

\* lib.rs 1557, 1580-1583: read returns 0 (or an error) once the child is
\* gone and the pipe is empty; the thread ends.
ReaderExit ==
    /\ stream_thread.status = "running"
    /\ stream_thread.pc = "read"
    /\ stream_process # "running"
    /\ stream_thread' = [stream_thread EXCEPT !.status = "finished"]
    /\ UNCHANGED <<state, playVars, stream_process, rb, stopper>>
    /\ UNCHANGED notPlay

\* lib.rs 2983-2991: the locked section of stop_impl
StopCall ==
    /\ ~poisoned
    /\ stopper = "idle"
    /\ state' = [state EXCEPT !.is_playing = FALSE, !.is_paused = FALSE,
                              !.position = 0, !.played_frames = 0,
                              !.mode = "idle", !.buffered_frames = 0]
    /\ stopper' = "kill"
    /\ scenario' = "none"
    /\ UNCHANGED <<ctlq, output_stream, poisoned>>
    /\ UNCHANGED <<stream_process, stream_thread, rb>>
    /\ UNCHANGED notPlay

\* lib.rs 1593-1595: take the child out of its slot and kill it
StopKill ==
    /\ stopper = "kill"
    /\ stream_process' = "none"
    /\ stopper' = "join"
    /\ UNCHANGED <<state, playVars, stream_thread, rb>>
    /\ UNCHANGED notPlay

\* lib.rs 1596-1598: take the reader out of its slot and join it; join
\* returns when the thread has ended.
StopJoin ==
    /\ stopper = "join"
    /\ stream_thread.status # "running"
    /\ stream_thread' = NoThread
    /\ stopper' = "finish"
    /\ UNCHANGED <<state, playVars, stream_process, rb>>
    /\ UNCHANGED notPlay

\* lib.rs 1599-1603, 2993-2994: the locked section of stop_stream, then
\* stop_impl returns.
StopFinish ==
    /\ ~poisoned
    /\ stopper = "finish"
    /\ state' = StopStreamFields(state)
    /\ stopper' = "idle"
    /\ scenario' = "stopped"
    /\ UNCHANGED <<ctlq, output_stream, poisoned>>
    /\ UNCHANGED <<stream_process, stream_thread, rb>>
    /\ UNCHANGED notPlay

NextStop ==
    \/ \E f \in PlaybackFiles, o \in OutcomesFor(output_stream) : LoadFile(f, o)
    \/ \E ok \in BOOLEAN, o \in OutcomesFor(output_stream) : LoadStream(ok, o)
    \/ \E c \in StreamChannels, ok \in BOOLEAN, o \in OutcomesFor(output_stream) :
          CaptureStart(c, ok, o)
    \/ \E o \in OutcomesFor(output_stream) : Play(o)
    \/ Pause
    \/ StopCall
    \/ StopKill
    \/ StopJoin
    \/ StopFinish
    \/ ChildExit
    \/ ReaderPush
    \/ ReaderCount
    \/ ReaderExit
    \/ \E samples \in BufferSamples : Callback(samples)

\* The PAUSE command of the host, file and stream loads, the reader thread
\* and the callback with its buffer.
NextSilence ==
    \/ \E f \in PlaybackFiles, o \in OutcomesFor(output_stream) : LoadFile(f, o)
    \/ \E o \in OutcomesFor(output_stream) : LoadStream(TRUE, o)
    \/ \E o \in OutcomesFor(output_stream) : Play(o)
    \/ Pause
    \/ HostPush(PauseCommand)
    \/ ReaderPush
    \/ ReaderCount
    \/ \E samples \in BufferSamples : Render(samples)

(***************************************************************************)
(* 5.  Error paths of the dispatcher: load of a missing or undecodable     *)
(* file, seek with its response, load_stream one lock section at a time   *)
(* and a failing read in the reader thread, next to load, play, the        *)
(* reader thread and the callback.                                         *)
(***************************************************************************)
\* lib.rs 2868-2872: the errors load_file_impl returns before it decodes
\* anything.
LoadErrors == {"File not found", "decode failed"}

\* lib.rs 3174-3181: load_handler's status for an Err
AlwaysInternalError(message) == 500
LoadErrorStatus(message) ==
    IF message = "File not found" THEN 400 ELSE 500

\* lib.rs 2867-2872, 3167-3183: load of a path that does not exist, or that
\* exists and does not decode.  The existence test comes before
\* stop_stream, decode_file after it.
LoadFails(err) ==
    /\ stopper = "idle"
    /\ IF err = "File not found"
       THEN UNCHANGED <<state, stream_process, stream_thread>>
       ELSE /\ ~poisoned
            /\ state' = StopStreamFields(state)
            /\ stream_process' = "none"
            /\ stream_thread' = NoThread
    /\ resp' = [op |-> "load", status |-> LoadErrorStatus(err), count |-> 0]
    /\ scenario' = "none"
    /\ UNCHANGED <<ctlq, output_stream, poisoned, rb, stopper>>
    /\ UNCHANGED notPlayback

\* lib.rs 3321: load_stream_handler taken one lock section at a time; its
\* first call is stop_stream.
LoadStreamStops ==
    /\ ~poisoned
    /\ stopper = "idle"
    /\ state' = StopStreamFields(state)
    /\ stream_process' = "none"
    /\ stream_thread' = NoThread
    /\ stopper' = "ls_set"
    /\ scenario' = IF state.stream_status = "idle" THEN "s5" ELSE "none"
    /\ UNCHANGED <<ctlq, output_stream, poisoned, rb, resp>>
    /\ UNCHANGED notPlayback

\* lib.rs 3322-3339: the descriptor section, then reset_ring_buffer
LoadStreamSets ==
    /\ ~poisoned
    /\ stopper = "ls_set"
    /\ state' = StreamStart(state, "stream", 2)
    /\ rb' = 0
    /\ stopper' = "ls_spawn"
    /\ UNCHANGED <<playVars, stream_process, stream_thread, resp>>
    /\ UNCHANGED notPlayback

\* lib.rs 3340-3354: spawn_ffmpeg; on Err update_stream_status("error") and
\* the 500 response, on Ok start_stream_reader and ensure_output_stream.
LoadStreamSpawns(spawn_ok, o) ==
    /\ ~poisoned
    /\ stopper = "ls_spawn"
    /\ stopper' = "idle"
    /\ IF spawn_ok
       THEN /\ state' = EnsureSharedState(
                           update_stream_status(state, "running", "none"),
                           output_stream, o)
            /\ output_stream' = EnsureSharedHeld(output_stream, o)
            /\ stream_process' = "running"
            /\ stream_thread' = StartedThread
            /\ resp' = [op |-> "load_stream", status |-> 200, count |-> 0]
            /\ scenario' = "none"
       ELSE /\ state' = update_stream_status(state, "error", "spawn failed")
            /\ resp' = [op |-> "load_stream", status |-> 500, count |-> 0]
            /\ scenario' = IF scenario = "s5" THEN "s5_failed" ELSE "none"
            /\ UNCHANGED <<output_stream, stream_process, stream_thread>>
    /\ UNCHANGED <<ctlq, poisoned, rb>>
    /\ UNCHANGED notPlayback

\* lib.rs 1580-1583: the reader's read returns Err: the error is logged
\* and the loop left; the thread ends.
ReaderReadError ==
    /\ stream_thread.status = "running"
    /\ stream_thread.pc = "read"
    /\ stream_thread' = [stream_thread EXCEPT !.status = "finished"]
    /\ scenario' = "read_error"
    /\ UNCHANGED <<state, ctlq, output_stream, poisoned, stream_process, rb,
                   stopper, resp>>
    /\ UNCHANGED notPlayback

SeekSeconds == {0, 1}

NextErrors ==
    \/ \E f \in PlaybackFiles, o \in OutcomesFor(output_stream) : LoadFile(f, o)
    \/ \E o \in OutcomesFor(output_stream) : Play(o)
    \/ ChildExit
    \/ ReaderPush
    \/ ReaderCount
    \/ ReaderExit
    \/ \E samples \in BufferSamples : Callback(samples)
    \/ \E err \in LoadErrors : LoadFails(err)
    \/ \E secs \in SeekSeconds : stopper = "idle" /\ SeekRequest(secs)
    \/ ReaderReadError
    \/ LoadStreamStops
    \/ LoadStreamSets
    \/ \E ok \in BOOLEAN, o \in OutcomesFor(output_stream) :
          LoadStreamSpawns(ok, o)

(***************************************************************************)
(* 4.K  The play queue: queue_add next to load.                            *)
(***************************************************************************)
MaxQueue == 3                \* entries of the longest queue
MaxTracks == 2               \* tracks of the longest queue_add request

\* Paths a request can name; "c.flac" is never loaded.
QueuePaths == {"a.flac", "b.flac", "c.flac"}

TrackLists ==
    UNION {[1..n -> QueuePaths] : n \in 0..MaxTracks}

\* lib.rs 1117-1131: queue_add_impl(tracks, replace) on the state
queue_add_impl(st, tracks, replace) ==
    LET queue == IF replace THEN tracks ELSE st.queue \o tracks
    IN  [st EXCEPT
           !.queue = queue,
           !.queue_index = IF st.file_path # "none"
                           THEN PositionOf(queue, st.file_path)
                           ELSE NoIndex]

\* lib.rs 1117-1131: the request, answered with queue.len()
QueueAdd(tracks, replace) ==
    /\ ~poisoned
    /\ stopper = "idle"
    /\ replace \/ Len(state.queue) + Len(tracks) <= MaxQueue
    /\ state' = queue_add_impl(state, tracks, replace)
    /\ resp' = [op |-> "queue_add", status |-> 200,
                count |-> Len(state'.queue)]
    /\ scenario' = "none"
    /\ UNCHANGED <<ctlq, output_stream, poisoned>>
    /\ UNCHANGED streamVars
    /\ UNCHANGED notPlayback

NextQueue ==
    \/ \E tracks \in TrackLists, replace \in BOOLEAN : QueueAdd(tracks, replace)
    \/ \E f \in PlaybackFiles, o \in OutcomesFor(output_stream) : LoadFile(f, o)

\* lib.rs 1139-1142: the index queue_next_impl looks at
next_index(st) ==
    IF st.queue_index = NoIndex THEN 0 ELSE st.queue_index + 1

\* lib.rs 3067-3079: the answers of queue_next_handler: the track with 200,
\* "queue empty" with 400, the error of load_file_impl with 500.  run is
\* history: how many calls in a row have returned a track.
QueueNextResponse(status, track) ==
    [op |-> "queue_next", status |-> status, count |-> 0, track |-> track,
     run |-> IF status # 200 THEN 0
             ELSE IF resp.op = "queue_next" THEN resp.run + 1 ELSE 1]

\* Outcomes of load_file_impl: Ok, or one of its errors.
LoadResults == {"ok"} \cup LoadErrors

\* lib.rs 1133-1153: queue_next_impl: the locked section that advances
\* queue_index, load_file_impl on the path of that track (f is the decoded
\* file, o1 what its ensure_output_stream meets) and play_impl (o2).  A
\* path no file has is "File not found".  Calls in a row that return a
\* track are counted up to MaxQueue + 1.
QueueNext(f, o1, o2, result) ==
    /\ ~poisoned
    /\ stopper = "idle"
    /\ scenario' = "none"
    /\ UNCHANGED <<ctlq, poisoned, stopper>>
    /\ UNCHANGED notPlayback
    /\ IF Len(state.queue) = 0 \/ next_index(state) >= Len(state.queue)
       THEN /\ resp' = QueueNextResponse(400, "none")
            /\ UNCHANGED <<state, output_stream, stream_process,
                           stream_thread, rb>>
       ELSE LET track == state.queue[next_index(state) + 1]
                advanced == [state EXCEPT !.queue_index = next_index(state)]
                loaded == EnsureSharedStateWith(
                              InstallFile(StopStreamFields(advanced), f),
                              output_stream, o1, TRUE)
                held == EnsureSharedHeld(output_stream, o1)
            IN  /\ (result = "File not found") <=>
                       (\A g \in PlaybackFiles : PathOf(g) # track)
                /\ result = "ok" => PathOf(f) = track
                /\ resp.op = "queue_next" => resp.run <= MaxQueue
                /\ CASE result = "ok" ->
                          /\ state' = EnsureSharedStateWith(
                                 [loaded EXCEPT !.is_playing = TRUE,
                                                !.is_paused = FALSE],
                                 held, o2, TRUE)
                          /\ output_stream' = EnsureSharedHeld(held, o2)
                          /\ stream_process' = "none"
                          /\ stream_thread' = NoThread
                          /\ rb' = 0
                          /\ resp' = QueueNextResponse(200, track)
                     [] result = "File not found" ->
                          /\ state' = advanced
                          /\ resp' = QueueNextResponse(500, "none")
                          /\ UNCHANGED <<output_stream, stream_process,
                                         stream_thread, rb>>
                     [] OTHER ->
                          /\ state' = StopStreamFields(advanced)
                          /\ stream_process' = "none"
                          /\ stream_thread' = NoThread
                          /\ resp' = QueueNextResponse(500, "none")
                          /\ UNCHANGED <<output_stream, rb>>

\* The calls of queue_next; a load that fails has no file and builds no
\* stream.
NoFile == [frames |-> 0, channels |-> 0, rate |-> DefaultRate]
NoBuild == [matched |-> FALSE, build_ok |-> FALSE]

QueueNextCalls ==
    \/ \E f \in PlaybackFiles, o1 \in OutcomesFor(output_stream) :
          \E o2 \in OutcomesFor(EnsureSharedHeld(output_stream, o1)) :
              QueueNext(f, o1, o2, "ok")
    \/ \E result \in LoadErrors : QueueNext(NoFile, NoBuild, NoBuild, result)

\* queue_add, queue_next, load, stop and load_stream, one at a time.
NextQueueNext ==
    \/ \E tracks \in TrackLists, replace \in BOOLEAN : QueueAdd(tracks, replace)
    \/ QueueNextCalls
    \/ \E f \in PlaybackFiles, o \in OutcomesFor(output_stream) : LoadFile(f, o)
    \/ Stop
    \/ \E o \in OutcomesFor(output_stream) : LoadStream(TRUE, o)

\* A queue filled by queue_add and walked by queue_next alone.
NextTraverse ==
    \/ \E tracks \in TrackLists, replace \in BOOLEAN : QueueAdd(tracks, replace)
    \/ QueueNextCalls

(***************************************************************************)
(* 6.  configure_optimizations.  An optional field of a request is the     *)
(* empty sequence (None) or a sequence of one value (Some).                *)
(***************************************************************************)
\* str::to_lowercase on the strings the requests carry
to_lowercase(value) ==
    CASE value = "TPDF_NS2" -> "tpdf_ns2"
      [] value = "Off" -> "off"
      [] value = "SoXR" -> "soxr"
      [] value = "UHQ" -> "uhq"
      [] OTHER -> value

\* lib.rs 1850-1858: normalize_dither_type
KeepDitherType(value) == value
normalize_dither_type(value) ==
    LET lower == to_lowercase(value)
    IN  IF lower \in {"off", "tpdf", "tpdf_ns1", "tpdf_ns2"} THEN lower
        ELSE "tpdf"

\* lib.rs 1770-1775: normalize_dither_bits
normalize_dither_bits(bits) == IF bits \in {16, 24} THEN bits ELSE 24

\* lib.rs 1741-1747: normalize_resampler_mode
normalize_resampler_mode(value) ==
    LET normalized == to_lowercase(value)
    IN  IF normalized \in {"auto", "rubato", "soxr"} THEN normalized
        ELSE "auto"

\* lib.rs 1749-1755: normalize_resampler_quality
normalize_resampler_quality(value) ==
    LET normalized == to_lowercase(value)
    IN  IF normalized \in {"low", "std", "hq", "uhq"} THEN normalized
        ELSE "hq"

Some(v) == <<v>>
None == <<>>
Options(S) == {None} \cup {Some(v) : v \in S}

DitherTypeRequests ==
    {"off", "Off", "tpdf", "tpdf_ns1", "tpdf_ns2", "TPDF_NS2", "unknown", ""}
DitherBitRequests == {0, 8, 16, 24, 32}
ResamplerRequests ==
    {[mode |-> md, quality |-> None] :
        md \in Options({"auto", "rubato", "soxr", "SoXR", "sinc"})}
    \cup {[mode |-> None, quality |-> q] :
        q \in Options({"low", "std", "hq", "uhq", "UHQ", "best"})}

\* The fields of OptimizeRequest (lib.rs 506-515) that the model's state
\* holds; a request carries any of the dither fields and at most one of the
\* resampler fields.
OptimizeRequests ==
    {[dither_type |-> t, dither_bits |-> b, dither_enabled |-> e,
      resampler_mode |-> r.mode, resampler_quality |-> r.quality] :
        t \in Options(DitherTypeRequests), b \in Options(DitherBitRequests),
        e \in Options(BOOLEAN), r \in ResamplerRequests}

\* lib.rs 3280-3289: the dither_type field of the request
OptimizeType(st, req) ==
    IF req.dither_type = None THEN st
    ELSE LET normalized == normalize_dither_type(req.dither_type[1])
         IN  [st EXCEPT !.dither_type = normalized,
                        !.dither_enabled =
                            IF normalized = "off" THEN FALSE ELSE @]

\* lib.rs 3290-3292: the dither_bits field
OptimizeBits(st, req) ==
    IF req.dither_bits = None THEN st
    ELSE [st EXCEPT !.dither_bits = normalize_dither_bits(req.dither_bits[1])]

\* lib.rs 3293-3301: the dither_enabled field
OptimizeEnabled(st, req) ==
    IF req.dither_enabled = None THEN st
    ELSE IF ~req.dither_enabled[1]
    THEN [st EXCEPT !.dither_enabled = FALSE, !.dither_type = "off"]
    ELSE [st EXCEPT !.dither_enabled = TRUE,
                    !.dither_type = IF @ = "off" THEN "tpdf" ELSE @]

\* lib.rs 3305-3310: the resampler fields
OptimizeResampler(st, req) ==
    [st EXCEPT
       !.resampler_mode =
           IF req.resampler_mode = None THEN @
           ELSE normalize_resampler_mode(req.resampler_mode[1]),
       !.resampler_quality =
           IF req.resampler_quality = None THEN @
           ELSE normalize_resampler_quality(req.resampler_quality[1])]

\* lib.rs 3278-3319: configure_opt_handler, under the state lock
ConfigureOptimizationsCore(req) ==
    /\ ~poisoned
    /\ stopper = "idle"
    /\ state' = OptimizeResampler(
                    OptimizeEnabled(OptimizeBits(OptimizeType(state, req),
                                                 req), req), req)
    /\ resp' = [op |-> "configure_optimizations", status |-> 200,
                count |-> 0]
    /\ scenario' = "none"
    /\ UNCHANGED <<ctlq, output_stream, poisoned>>
    /\ UNCHANGED streamVars

\* The handler where the error history is not looked at.
ConfigureOptimizations(req) ==
    ConfigureOptimizationsCore(req) /\ UNCHANGED notPlayback

NextOptimize ==
    \E req \in OptimizeRequests : ConfigureOptimizations(req)

(***************************************************************************)
(* 7.  The working descriptor of a file: load, play and stop with the      *)
(* target rate of configure_upsampling and both outcomes of the resampler  *)
(* in ensure_output_stream.                                                *)
(***************************************************************************)
TargetRates == {NoTarget, DefaultRate, FallbackRate}

\* lib.rs 3247-3255: configure_upsampling_handler
ConfigureUpsampling(target) ==
    /\ ~poisoned
    /\ stopper = "idle"
    /\ state' = [state EXCEPT !.target_samplerate = target]
    /\ resp' = [op |-> "configure_upsampling", status |-> 200, count |-> 0]
    /\ scenario' = IF state.mode = "file" THEN "retargeted" ELSE "none"
    /\ UNCHANGED <<ctlq, output_stream, poisoned>>
    /\ UNCHANGED streamVars
    /\ UNCHANGED notPlayback

NextDuration ==
    \/ \E f \in PlaybackFiles, o \in OutcomesFor(output_stream),
          ok \in BOOLEAN : LoadFileWith(f, o, ok)
    \/ \E o \in OutcomesFor(output_stream), ok \in BOOLEAN : PlayWith(o, ok)
    \/ Stop
    \/ \E secs \in {0, 1} : Seek(secs)
    \/ \E target \in TargetRates : ConfigureUpsampling(target)
    \/ \E samples \in BufferSamples : Callback(samples)

(***************************************************************************)
(* 4.D / 4.F  Functions of the decode and render path, each applied to     *)
(* every input of a bounded set.                                           *)
(***************************************************************************)
NoCall == [fn |-> "none"]

MaxSamples == 6              \* samples of the longest decoded sequence
MaxChannels == 3             \* channel counts 1..MaxChannels
MaxTrim == 3                 \* delay and padding 0..MaxTrim, in frames

\* Decoded samples: the k-th sample is k, so that a result shows which
\* samples it holds and in which order.
SampleSeq(n) == [k \in 1..n |-> k]

\* lib.rs 1645-1662: apply_gapless_trim
TrimIgnoresPadding(samples, channels, delay, padding) ==
    SubSeq(samples, Min(delay, Len(samples) \div Max(channels, 1))
                        * Max(channels, 1) + 1,
           Len(samples))

apply_gapless_trim(samples, channels, delay, padding) ==
    IF samples = <<>> THEN samples
    ELSE LET ch == Max(channels, 1)
             frame_count == Len(samples) \div ch
         IN  IF delay = 0 /\ padding = 0 THEN samples
             ELSE LET start_frame == Min(delay, frame_count)
                      end_frame == Max(frame_count - padding, 0)
                  IN  IF end_frame <= start_frame THEN <<>>
                      ELSE SubSeq(samples, start_frame * ch + 1,
                                  Min(end_frame * ch, Len(samples)))

TrimCalls ==
    {[fn |-> "apply_gapless_trim", samples |-> SampleSeq(n), channels |-> c,
      delay |-> d, padding |-> p, out |-> <<>>, done |-> FALSE] :
        n \in 0..MaxSamples, c \in 1..MaxChannels,
        d \in 0..MaxTrim, p \in 0..MaxTrim}

\* lib.rs 1722-1724, 1788: the call returns
TrimApply ==
    /\ call.fn = "apply_gapless_trim"
    /\ ~call.done
    /\ call' = [call EXCEPT
                  !.out = apply_gapless_trim(call.samples, call.channels,
                                             call.delay, call.padding),
                  !.done = TRUE]
    /\ UNCHANGED engineVars

NextGapless == TrimApply

\* Samples and thresholds are multiples of 1/Unit; a result is the exact
\* fraction num/den of a Unit (den > 0), without the rounding of f32.
Unit == 20
MaxSample == 30              \* samples -MaxSample..MaxSample (1.5 in magnitude)

Abs(x) == IF x < 0 THEN -x ELSE x
Signum(x) == IF x < 0 THEN -1 ELSE IF x > 0 THEN 1 ELSE 0

\* lib.rs 1777-1779: normalize_limiter_threshold: clamp(0.7, 1.0)
normalize_limiter_threshold(value) ==
    Min(Max(value, (7 * Unit) \div 10), Unit)

\* lib.rs 2125-2134: soft_limit_sample.  With a = abs - limit and
\* D = 1 - limit, t = min(a / D, 1) and
\* shaped = limit + D * (t + t*t - t*t*t)
\*        = (limit*D*D + a*D*D + a*a*D - a*a*a) / (D*D)   when a < D,
\*        = limit + D                                     when a >= D
\* (a / 0 is +infinity for a > 0, and min(+infinity, 1) is 1).
soft_limit_sample(sample, threshold) ==
    LET limit == normalize_limiter_threshold(threshold)
        abs == Abs(sample)
        a == abs - limit
        D == Unit - limit
    IN  IF abs <= limit THEN [num |-> sample, den |-> 1]
        ELSE IF a >= D THEN [num |-> Signum(sample) * (limit + D), den |-> 1]
        ELSE [num |-> Signum(sample)
                        * (limit * D * D + a * D * D + a * a * D - a * a * a),
              den |-> D * D]

LimiterCalls ==
    {[fn |-> "soft_limit_sample", sample |-> x, threshold |-> th0,
      out |-> [num |-> 0, den |-> 1], done |-> FALSE] :
        x \in (-MaxSample)..MaxSample,
        th0 \in ((7 * Unit) \div 10)..Unit}

\* lib.rs 2424-2431: the callback limits one sample
LimitApply ==
    /\ call.fn = "soft_limit_sample"
    /\ ~call.done
    /\ call' = [call EXCEPT
                  !.out = soft_limit_sample(call.sample, call.threshold),
                  !.done = TRUE]
    /\ UNCHANGED engineVars

NextLimiter == LimitApply

\* lib.rs 2423-2431: what fill_output_buffer does to one sample it copied:
\* the volume, then the limiter when it is enabled.
OutputSample(sample, volume, limiter_enabled, threshold) ==
    LET scaled == (sample * volume) \div Unit
    IN  IF limiter_enabled THEN soft_limit_sample(scaled, threshold)
        ELSE [num |-> scaled, den |-> 1]

Volumes == {0, Unit \div 2, Unit}

\* A callback of one frame over a file buffer of a constant value, with the
\* volume and limiter settings of the state.  Only the values whose product
\* with the volume is on the grid are drawn.
MixCallsAt(v) ==
    {[fn |-> "fill_output_buffer", input |-> x, channels |-> c,
      volume |-> v, limiter_enabled |-> b, threshold |-> th0,
      out |-> <<>>, done |-> FALSE] :
        x \in {y \in (-Unit)..Unit : (y * v) % Unit = 0},
        c \in 1..2, b \in BOOLEAN,
        th0 \in ((7 * Unit) \div 10)..Unit}

MixCalls == UNION {MixCallsAt(v) : v \in Volumes}

\* lib.rs 2381-2396, 2423-2431: the file arm copies `channels` samples of
\* the buffer, then every sample is scaled and limited.
MixApply ==
    /\ call.fn = "fill_output_buffer"
    /\ ~call.done
    /\ call' = [call EXCEPT
                  !.out = [ch \in 1..call.channels |->
                             OutputSample(call.input, call.volume,
                                          call.limiter_enabled,
                                          call.threshold)],
                  !.done = TRUE]
    /\ UNCHANGED engineVars

MaxStep == 8                 \* quantizer steps 0..MaxStep, in 1/Unit

\* f32::round: the nearest integer to a / b (b > 0), halves away from zero
RoundDiv(a, b) == Signum(a) * ((2 * Abs(a) + b) \div (2 * b))

\* lib.rs 2113, 2122, 2160: clamp(-1.0, 1.0), 1.0 being `full` units
SkipClamp(x, full) == x
clamp_unit(x, full) == Min(Max(x, -full), full)

\* lib.rs 2117-2123: quantize_to_step, 1.0 being `full` units
quantize_in(value, step, full) ==
    IF step <= 0 THEN value
    ELSE LET scaled == RoundDiv(value, step)
         IN  clamp_unit(scaled * step, full)

\* lib.rs 2117-2123: quantize_to_step on the grid of 1/Unit
quantize_to_step(value, step) == quantize_in(value, step, Unit)

QuantizeCalls ==
    {[fn |-> "quantize_to_step", value |-> x, step |-> st0,
      out |-> 0, again |-> 0, done |-> FALSE] :
        x \in (-MaxSample)..MaxSample, st0 \in 0..MaxStep}

\* lib.rs 2117-2123: the quantizer applied to a value, and once more to its
\* own result with the same step
QuantizeApply ==
    /\ call.fn = "quantize_to_step"
    /\ ~call.done
    /\ LET once == quantize_to_step(call.value, call.step)
       IN  call' = [call EXCEPT
                      !.out = once,
                      !.again = quantize_to_step(once, call.step),
                      !.done = TRUE]
    /\ UNCHANGED engineVars

(***************************************************************************)
(* 4.F  Dither.  The 64-bit seed is a little-endian sequence of 8 limbs of *)
(* 8 bits, so that the multiplication wraps at 2^64 as in the code.  A     *)
(* uniform draw keeps the top 4 of the 32 bits the code uses: it is k / 15 *)
(* for k in 0..15.  Samples are counted in units of 1/15 of an LSB, so the *)
(* noise (u1 - u2) * lsb is the integer k1 - k2.                           *)
(***************************************************************************)
SeedLimbs == 8
LimbBase == 256
\* lib.rs 2102: 6364136223846793005 = 0x5851F42D4C957F2D
Multiplier == <<45, 127, 149, 76, 45, 244, 81, 88>>
NoiseLevels == 15
MAX_DITHER_CHANNELS == 8
DITHER_SHAPER_ORDER1_COEFF == 1
DITHER_SHAPER_ORDER2_COEFF1 == 2
DITHER_SHAPER_ORDER2_COEFF2 == -1

RECURSIVE ColumnSum(_, _, _)
\* the products seed[i] * Multiplier[j] of weight LimbBase^(k-1), i from `i`
ColumnSum(seed, k, i) ==
    IF i > k THEN 0
    ELSE seed[i] * Multiplier[k + 1 - i] + ColumnSum(seed, k, i + 1)

RECURSIVE LcgLimbs(_, _, _)
LcgLimbs(seed, k, carry) ==
    IF k > SeedLimbs THEN <<>>
    ELSE LET t == ColumnSum(seed, k, 1) + carry
         IN  <<t % LimbBase>> \o LcgLimbs(seed, k + 1, t \div LimbBase)

\* lib.rs 2102: seed.wrapping_mul(6364136223846793005).wrapping_add(1)
SeedStuck(seed) == seed
next_seed(seed) == LcgLimbs(seed, 1, 1)

\* lib.rs 2103-2104: (seed >> 32) as u32 / u32::MAX, here its top 4 bits
uniform_level(seed) == seed[SeedLimbs] \div (LimbBase \div (NoiseLevels + 1))

\* lib.rs 2108-2110, 2145-2147: 1.0 in units, for bits.clamp(8, 32)
FullScale(bits) == (2 ^ (Min(Max(bits, 8), 32) - 1)) * NoiseLevels

RECURSIVE DitherFrom(_, _, _, _, _, _, _, _)
\* lib.rs 2111-2114 (order 0) and 2153-2168 (order 1, 2): the loop over the
\* samples from index idx on; acc is the slice, seed, err1, err2 so far.
DitherFrom(acc, idx, bits, channel_count, order, full, lsb, n) ==
    IF idx > n THEN acc
    ELSE
      LET seed1 == next_seed(acc.seed)
          seed2 == next_seed(seed1)
          noise == uniform_level(seed1) - uniform_level(seed2)
          ch == ((idx - 1) % channel_count) + 1
          sample == acc.samples[idx]
      IN  IF order = 0
          THEN DitherFrom(
                 [acc EXCEPT !.samples[idx] = clamp_unit(sample + noise, full),
                             !.seed = seed2],
                 idx + 1, bits, channel_count, order, full, lsb, n)
          ELSE
            LET feedback ==
                    IF order = 1
                    THEN DITHER_SHAPER_ORDER1_COEFF * acc.err1[ch]
                    ELSE DITHER_SHAPER_ORDER2_COEFF1 * acc.err1[ch]
                         + DITHER_SHAPER_ORDER2_COEFF2 * acc.err2[ch]
                shaped == sample + feedback
                dithered == clamp_unit(shaped + noise, full)
                quantized == quantize_in(dithered, lsb, full)
                error == dithered - quantized
            IN  DitherFrom(
                  [samples |-> [acc.samples EXCEPT ![idx] = quantized],
                   seed |-> seed2,
                   err1 |-> [acc.err1 EXCEPT ![ch] = error],
                   err2 |-> [acc.err2 EXCEPT ![ch] = acc.err1[ch]]],
                  idx + 1, bits, channel_count, order, full, lsb, n)

\* lib.rs 2107-2115: apply_tpdf_dither
apply_tpdf_dither(samples, bits, seed, err1, err2) ==
    DitherFrom([samples |-> samples, seed |-> seed,
                err1 |-> err1, err2 |-> err2],
               1, bits, 1, 0, FullScale(bits), NoiseLevels, Len(samples))

\* lib.rs 2136-2169: apply_tpdf_dither_shaped
apply_tpdf_dither_shaped(samples, bits, channels, seed, err1, err2, order) ==
    LET channel_count == Max(channels, 1)
    IN  IF channel_count > MAX_DITHER_CHANNELS \/ order = 0
        THEN apply_tpdf_dither(samples, bits, seed, err1, err2)
        ELSE DitherFrom([samples |-> samples, seed |-> seed,
                         err1 |-> err1, err2 |-> err2],
                        1, bits, channel_count, order, FullScale(bits),
                        NoiseLevels, Len(samples))

\* lib.rs 2188-2214: the variant apply_dither_if_needed runs for a type
DitherVariants == {"tpdf", "tpdf_ns1", "tpdf_ns2"}
RunDither(variant, samples, bits, channels, seed, err1, err2) ==
    IF variant = "tpdf_ns1"
    THEN apply_tpdf_dither_shaped(samples, bits, channels, seed, err1, err2, 1)
    ELSE IF variant = "tpdf_ns2"
    THEN apply_tpdf_dither_shaped(samples, bits, channels, seed, err1, err2, 2)
    ELSE apply_tpdf_dither(samples, bits, seed, err1, err2)

MaxDither == 2               \* samples of one dithered slice
MaxSeed == 2                 \* seeds 0..MaxSeed, next to 2^64 - 1
DitherBitDepths == {4, 8, 16}
DitherChannels == {0, 2, MAX_DITHER_CHANNELS + 1}

SeedOf(low) == [i \in 1..SeedLimbs |-> IF i = 1 THEN low ELSE 0]
DitherSeeds ==
    {SeedOf(b) : b \in 0..MaxSeed}
        \cup {[i \in 1..SeedLimbs |-> LimbBase - 1]}

\* sample values: the two ends of the range, zero and a fraction of an LSB
DitherLevels(bits) == {-FullScale(bits), 0, 7, FullScale(bits)}
DitherSlices(bits) ==
    UNION {[1..n -> DitherLevels(bits)] : n \in 0..MaxDither}

\* error histories: the initial one, a reachable one, and an arbitrary one
ErrorHistories ==
    {[i \in 1..MAX_DITHER_CHANNELS |-> 0],
     [i \in 1..MAX_DITHER_CHANNELS |-> IF i = 1 THEN 7 ELSE -7],
     [i \in 1..MAX_DITHER_CHANNELS |-> 40 * NoiseLevels * i]}

NoDither ==
    [samples |-> <<>>, seed |-> SeedOf(0),
     err1 |-> [i \in 1..MAX_DITHER_CHANNELS |-> 0],
     err2 |-> [i \in 1..MAX_DITHER_CHANNELS |-> 0]]

DitherCallsFor(b) ==
    {[fn |-> "dither", variant |-> v, samples |-> sm, bits |-> b,
      channels |-> c, seed |-> sd, err1 |-> e, err2 |-> e,
      out |-> NoDither, again |-> NoDither, done |-> FALSE] :
        v \in DitherVariants, c \in DitherChannels, sd \in DitherSeeds,
        e \in ErrorHistories, sm \in DitherSlices(b)}


\* lib.rs 2188-2214: one run of a dither variant, and a second run from the
\* same inputs
DitherApply ==
    /\ call.fn = "dither"
    /\ ~call.done
    /\ call' = [call EXCEPT
                  !.out = RunDither(call.variant, call.samples, call.bits,
                                    call.channels, call.seed, call.err1,
                                    call.err2),
                  !.again = RunDither(call.variant, call.samples, call.bits,
                                      call.channels, call.seed, call.err1,
                                      call.err2),
                  !.done = TRUE]
    /\ UNCHANGED engineVars

(***************************************************************************)
(* 4.E  Choice of the resampler backend.  A conversion is the list of the  *)
(* backends run, each with the buffer and the quality it was given, and    *)
(* the Result returned.                                                    *)
(***************************************************************************)
\* lib.rs 1757-1768: should_prefer_soxr
should_prefer_soxr(resampler_mode, quality, soxr_available) ==
    IF resampler_mode = "soxr" THEN TRUE
    ELSE IF resampler_mode = "rubato" THEN FALSE
    ELSE IF ~soxr_available THEN FALSE
    ELSE quality \notin {"low", "std"}

\* lib.rs 2069, 2907: the test that lets the polyphase backend run after an
\* error of the HQ backend
AlwaysFallsBack(mode) == TRUE
FallsBack(mode) == mode = "auto"

\* lib.rs 2066, 2897: resample_audio_soxr on the input, which it borrows
HqRun == [backend |-> "soxr", input |-> "original", quality |-> "none"]
\* lib.rs 2071, 2080, 2909-2915, 2923-2929: resample_audio on the input
PolyRun(quality) ==
    [backend |-> "rubato", input |-> "original", quality |-> quality]

\* lib.rs 2062-2081 (resample_for_output) and 2892-2930 (load_file_impl);
\* load normalizes the mode it read from the state, both normalize the
\* quality.
Convert(site, stored_mode, stored_quality, soxr_available, hq_ok, poly_ok) ==
    LET mode == IF site = "load"
                THEN normalize_resampler_mode(stored_mode)
                ELSE stored_mode
        quality == normalize_resampler_quality(stored_quality)
        poly == [runs |-> <<PolyRun(quality)>>,
                 result |-> IF poly_ok THEN "ok" ELSE "rubato error"]
    IN  IF should_prefer_soxr(mode, quality, soxr_available)
        THEN IF hq_ok THEN [runs |-> <<HqRun>>, result |-> "ok"]
             ELSE IF FallsBack(mode)
             THEN [runs |-> <<HqRun>> \o poly.runs, result |-> poly.result]
             ELSE [runs |-> <<HqRun>>, result |-> "soxr error"]
        ELSE poly

\* The settings are the ones configure_optimizations stores.
ConvertCalls ==
    {[fn |-> "convert", site |-> site, resampler_mode |-> md,
      resampler_quality |-> q, soxr_available |-> av, hq_ok |-> h,
      poly_ok |-> p, out |-> [runs |-> <<>>, result |-> "none"],
      done |-> FALSE] :
        site \in {"load", "resample_for_output"},
        md \in {"auto", "rubato", "soxr"}, q \in {"low", "std", "hq", "uhq"},
        av \in BOOLEAN, h \in BOOLEAN, p \in BOOLEAN}

ConvertApply ==
    /\ call.fn = "convert"
    /\ ~call.done
    /\ call' = [call EXCEPT
                  !.out = Convert(call.site, call.resampler_mode,
                                  call.resampler_quality, call.soxr_available,
                                  call.hq_ok, call.poly_ok),
                  !.done = TRUE]
    /\ UNCHANGED engineVars

NextSignal ==
    \/ MixApply
    \/ QuantizeApply
    \/ DitherApply
    \/ ConvertApply

(***************************************************************************)
(* 4.I / 4.K  Output renderer slots: configure_output, play and load run   *)
(* by dispatcher threads, every lock section of ensure_output_stream one   *)
(* step.  The shared build (lib.rs 2252-2358) holds the output_stream      *)
(* mutex from its test to its store, so it is one step.                    *)
(***************************************************************************)
HandlerThreads == {1, 2}

\* Device ids a request can carry on each build, named after the host that
\* lists the device; "none" is no id (the default device).
DeviceIdsFor(windows) ==
    IF windows THEN {"none", "wasapi", "asio"} ELSE {"none", "other"}

\* lib.rs 2519-2534: device_hostapi_by_id
HostApiById(id) ==
    CASE id = "wasapi" -> "Wasapi"
      [] id = "asio" -> "Asio"
      [] id = "other" -> "Other"
      [] OTHER -> "None"

\* format!("{:?}", cpal::default_host().id())
DefaultHost(windows) == IF windows THEN "Wasapi" ELSE "Other"

\* lib.rs 2560-2580: resolve_exclusive_mode
AlwaysExclusive(device_id, requested, windows) == requested
resolve_exclusive_mode(device_id, requested, windows) ==
    IF ~requested THEN FALSE
    ELSE IF HostApiById(device_id) # "None"
    THEN CASE HostApiById(device_id) = "Asio" -> TRUE
           [] HostApiById(device_id) = "Wasapi" -> windows
           [] OTHER -> FALSE
    ELSE IF windows
    THEN DefaultHost(windows) \in {"Asio", "Wasapi"}
    ELSE FALSE

\* lib.rs 2225-2229: the host API ensure_output_stream looks at.
SnapshotHostApi(device_id, windows) ==
    IF HostApiById(device_id) # "None" THEN HostApiById(device_id)
    ELSE DefaultHost(windows)

ThreadIdle == [pc |-> "idle", op |-> "none", device_id |-> "none",
               exclusive |-> "none", was_exclusive |-> FALSE,
               result |-> "none"]

\* A handler returns: its locals are gone, the Result of its
\* ensure_output_stream stays for the history.
Returned(result) == [ThreadIdle EXCEPT !.result = result]

\* lib.rs 3002-3018: the locked section of configure_output_impl;
\* exclusive is "none" (omitted), "true" or "false".
ConfigureState(st, device_id, exclusive, windows) ==
    [st EXCEPT
       !.device_id = device_id,
       !.exclusive_mode =
          IF exclusive # "none"
          THEN resolve_exclusive_mode(device_id, exclusive = "true", windows)
          ELSE IF st.exclusive_mode
          THEN resolve_exclusive_mode(device_id, TRUE, windows)
          ELSE @]

CallConfigure(t, device_id, exclusive) ==
    /\ th[t].pc = "idle"
    /\ state' = ConfigureState(state, device_id, exclusive, target_windows)
    /\ th' = [th EXCEPT ![t] = [ThreadIdle EXCEPT
                 !.pc = "cfg_stop_excl", !.op = "configure_output",
                 !.device_id = device_id, !.exclusive = exclusive,
                 !.was_exclusive = state.exclusive_mode]]
    /\ UNCHANGED <<output_stream, exclusive_stream>>
    /\ UNCHANGED notOutput

\* lib.rs 3019: stop_exclusive_stream(shared)
CfgStopExclusive(t) ==
    /\ th[t].pc = "cfg_stop_excl"
    /\ exclusive_stream' = FALSE
    /\ th' = [th EXCEPT ![t].pc = "cfg_drop_shared"]
    /\ UNCHANGED <<state, output_stream>>
    /\ UNCHANGED notOutput

\* lib.rs 3020: shared.output_stream.lock().unwrap().0 = None
CfgDropShared(t) ==
    /\ th[t].pc = "cfg_drop_shared"
    /\ output_stream' = FALSE
    /\ th' = [th EXCEPT ![t].pc = "ens_snapshot"]
    /\ UNCHANGED <<state, exclusive_stream>>
    /\ UNCHANGED notOutput

\* lib.rs 2963-2967: the locked section of play_impl
CallPlay(t) ==
    /\ th[t].pc = "idle"
    /\ state' = [state EXCEPT !.is_playing = TRUE, !.is_paused = FALSE]
    /\ th' = [th EXCEPT ![t] = [ThreadIdle EXCEPT
                 !.pc = "ens_snapshot", !.op = "play"]]
    /\ UNCHANGED <<output_stream, exclusive_stream>>
    /\ UNCHANGED notOutput

\* lib.rs 2867-2957: load_file_impl up to its call of ensure_output_stream
CallLoad(t, f) ==
    /\ th[t].pc = "idle"
    /\ state' = InstallFile(StopStreamFields(state), f)
    /\ th' = [th EXCEPT ![t] = [ThreadIdle EXCEPT
                 !.pc = "ens_snapshot", !.op = "load"]]
    /\ UNCHANGED <<output_stream, exclusive_stream>>
    /\ UNCHANGED notOutput

\* lib.rs 2223-2229, 2249: the snapshot and the branch taken on it.
EnsSnapshot(t) ==
    /\ th[t].pc = "ens_snapshot"
    /\ th' = [th EXCEPT
                ![t].pc =
                   IF state.exclusive_mode
                   THEN IF /\ SnapshotHostApi(state.device_id, target_windows)
                                 = "Wasapi"
                           /\ target_windows
                        THEN "ens_excl_check"
                        ELSE "ens_shared"
                   ELSE "ens_stop_excl"]
    /\ UNCHANGED <<state, output_stream, exclusive_stream>>
    /\ UNCHANGED notOutput

\* lib.rs 2230-2232: an exclusive renderer is running already.
EnsExclusiveCheck(t) ==
    /\ th[t].pc = "ens_excl_check"
    /\ th' = [th EXCEPT ![t] =
                IF exclusive_stream THEN Returned("ok")
                ELSE [@ EXCEPT !.pc = "ens_drop_shared"]]
    /\ UNCHANGED <<state, output_stream, exclusive_stream>>
    /\ UNCHANGED notOutput

\* lib.rs 2233: shared.output_stream.lock().unwrap().0 = None
EnsDropShared(t) ==
    /\ th[t].pc = "ens_drop_shared"
    /\ output_stream' = FALSE
    /\ th' = [th EXCEPT ![t].pc = "ens_start_excl"]
    /\ UNCHANGED <<state, exclusive_stream>>
    /\ UNCHANGED notOutput

\* lib.rs 2237-2241, 2814-2844: on Windows start_wasapi_exclusive_stream
\* spawns the renderer thread and returns Ok; the handle is stored.
EnsStartExclusive(t) ==
    /\ th[t].pc = "ens_start_excl"
    /\ exclusive_stream' = TRUE
    /\ th' = [th EXCEPT ![t] = Returned("ok")]
    /\ UNCHANGED <<state, output_stream>>
    /\ UNCHANGED notOutput

\* lib.rs 2249-2251: exclusive_mode was false: stop an exclusive renderer.
EnsStopExclusive(t) ==
    /\ th[t].pc = "ens_stop_excl"
    /\ exclusive_stream' = FALSE
    /\ th' = [th EXCEPT ![t].pc = "ens_shared"]
    /\ UNCHANGED <<state, output_stream>>
    /\ UNCHANGED notOutput

\* lib.rs 2252-2358: the shared build under the output_stream mutex.
EnsShared(t, o) ==
    /\ th[t].pc = "ens_shared"
    /\ state' = EnsureSharedState(state, output_stream, o)
    /\ output_stream' = EnsureSharedHeld(output_stream, o)
    /\ th' = [th EXCEPT ![t] =
                 Returned(IF output_stream' THEN "ok" ELSE "err")]
    /\ UNCHANGED exclusive_stream
    /\ UNCHANGED notOutput

HandlerCore(t) ==
    \/ \E d \in DeviceIdsFor(target_windows), e \in {"none", "true", "false"} :
          CallConfigure(t, d, e)
    \/ CfgStopExclusive(t)
    \/ CfgDropShared(t)
    \/ CallPlay(t)
    \/ CallLoad(t, [frames |-> MaxFrames, channels |-> 2, rate |-> DefaultRate])
    \/ EnsSnapshot(t)
    \/ EnsExclusiveCheck(t)
    \/ EnsDropShared(t)
    \/ EnsStartExclusive(t)
    \/ EnsStopExclusive(t)
    \/ \E o \in OutcomesFor(output_stream) : EnsShared(t, o)

\* No renderer, and no snapshot taken.
NoDevice == [device_id |-> "-", channels |-> 0]
NoBuilt == [shared |-> NoDevice, exclusive |-> NoDevice,
            snap |-> [t \in HandlerThreads |-> NoDevice]]

\* lib.rs 2223, 2234-2237, 2257-2261, 2272-2273: a renderer is built for
\* the device_id and the channels of the state_snapshot its
\* ensure_output_stream took.
BuiltAfter(t) ==
    [shared |-> IF ~output_stream' THEN NoDevice
                ELSE IF ~output_stream THEN built.snap[t]
                ELSE built.shared,
     exclusive |-> IF ~exclusive_stream' THEN NoDevice
                   ELSE IF ~exclusive_stream THEN built.snap[t]
                   ELSE built.exclusive,
     snap |-> [built.snap EXCEPT
                 ![t] = IF th'[t].pc = "idle" THEN NoDevice
                        ELSE IF th[t].pc = "ens_snapshot"
                        THEN [device_id |-> state.device_id,
                              channels |-> Max(state.channels, 1)]
                        ELSE @]]

\* A step of a handler where the history of the builds is not kept
HandlerStep(t) == HandlerCore(t) /\ UNCHANGED built

\* A step of a handler, with the history of the builds
TrackedStep(t) == HandlerCore(t) /\ built' = BuiltAfter(t)

\* configure_output served by thread 1 while thread 2 serves play and load
NextRebuild ==
    \/ TrackedStep(1)
    \/ TrackedStep(2) /\ th'[2].op # "configure_output"

\* One dispatcher thread serving play, configure_output and the load of
\* every file
NextReload ==
    \/ TrackedStep(1)
    \/ \E f \in PlaybackFiles : CallLoad(1, f) /\ built' = BuiltAfter(1)

\* Requests served by two threads of the runtime at once.
NextOutput == \E t \in HandlerThreads : HandlerStep(t)

\* Requests served one at a time.
NextConfigure == HandlerStep(1)

InitOutput ==
    /\ exclusive_stream = FALSE
    /\ built = NoBuilt
    /\ th = [t \in HandlerThreads |-> ThreadIdle]

InitStream ==
    /\ stream_process = "none"
    /\ stream_thread = NoThread
    /\ rb = 0
    /\ stopper = "idle"

InitPlayback ==
    /\ ctlq = <<>>
    /\ output_stream = FALSE
    /\ poisoned = FALSE
    /\ scenario = "none"

(***************************************************************************)
(* 4.G  The decode loop of the transcoder reader as a function of the      *)
(* byte stream and of the way read() cuts it.  A byte is its position in   *)
(* the stream, a float the four bytes it was decoded from.                 *)
(***************************************************************************)
MaxStream == 8               \* bytes of the longest stream
ReadBuffer == 8              \* bytes of the read buffer (8192 in the code)
SampleBytes == 4             \* bytes of one f32

\* lib.rs 1559-1566: the floats decoded from one read() result of n bytes
\* that starts at stream position `first`: offsets 0, 4, ... while
\* offset + 4 <= n.
DecodeRead(first, n) ==
    [k \in 1..(n \div SampleBytes) |->
        [b \in 1..SampleBytes |-> first + (k - 1) * SampleBytes + b - 1]]

RECURSIVE DecodeReads(_, _)
\* lib.rs 1555-1585: the loop over the read() results; every read starts
\* again at offset 0 of the buffer.
DecodeReads(first, reads) ==
    IF reads = <<>> THEN <<>>
    ELSE DecodeRead(first, Head(reads))
            \o DecodeReads(first + Head(reads), Tail(reads))

RECURSIVE Splits(_)
\* The ways read() can return a stream of n bytes: 1..ReadBuffer bytes a
\* call.
Splits(n) ==
    IF n = 0 THEN {<<>>}
    ELSE UNION {{<<k>> \o rest : rest \in Splits(n - k)} :
                   k \in 1..Min(n, ReadBuffer)}

ReaderCallsFor(n) ==
    {[fn |-> "reader", bytes |-> n, reads |-> r, out |-> <<>>,
      done |-> FALSE] : r \in Splits(n)}

ReaderApply ==
    /\ call.fn = "reader"
    /\ ~call.done
    /\ call' = [call EXCEPT !.out = DecodeReads(1, call.reads),
                            !.done = TRUE]
    /\ UNCHANGED engineVars

NextReader == ReaderApply

(***************************************************************************)
(* 4.F  The dither pass of the callback of a 16-bit device next to         *)
(* configure_optimizations: apply_dither_if_needed reads the settings, the *)
(* seed and the error history under the state lock, runs the variant       *)
(* without the lock and takes the lock again to write seed and history.    *)
(***************************************************************************)
MaxPasses == 2               \* dither passes of one run
DeviceBits == 16             \* target_bits of both integer callbacks

\* lib.rs 910-911, 1860-1863: an error history of zeros
DitherZero == [i \in 1..MAX_DITHER_CHANNELS |-> 0]

\* No pass is running.
NoPass ==
    [pc |-> "idle", dither_type |-> "off", bits |-> 0, seed |-> SeedOf(0),
     channels |-> 0, err1 |-> DitherZero, err2 |-> DitherZero]

\* lib.rs 909-911: the dither fields of initial_state().  changed is
\* history: a request has changed dither_type and no pass has started
\* since; passes counts the passes started.
DitherState(seed) ==
    [dither_rng |-> seed, dither_shape_err1 |-> DitherZero,
     dither_shape_err2 |-> DitherZero, pass |-> NoPass, changed |-> FALSE,
     passes |-> 0]

\* Requests that carry the dither type, the dither switch or both.
DitherRequests ==
    {[dither_type |-> t, dither_bits |-> None, dither_enabled |-> e,
      resampler_mode |-> None, resampler_quality |-> None] :
        t \in Options({"off", "tpdf", "tpdf_ns1", "tpdf_ns2"}),
        e \in Options(BOOLEAN)}

\* lib.rs 3282-3284, 3295-3297: the two calls of reset_dither_shape_state
ResetsShape(st, req) ==
    \/ /\ req.dither_type # None
       /\ normalize_dither_type(req.dither_type[1]) # st.dither_type
    \/ /\ req.dither_enabled # None
       /\ ~req.dither_enabled[1]

\* lib.rs 3278-3319: configure_opt_handler with the error history
ConfigureDither(req) ==
    /\ ConfigureOptimizationsCore(req)
    /\ dither' =
          [dither EXCEPT
             !.dither_shape_err1 =
                 IF ResetsShape(state, req) THEN DitherZero ELSE @,
             !.dither_shape_err2 =
                 IF ResetsShape(state, req) THEN DitherZero ELSE @,
             !.changed = @ \/ state'.dither_type # state.dither_type]
    /\ UNCHANGED <<slVars, ringVars, outVars, call, rendered, transcoders>>

\* lib.rs 2172-2186: the first lock section of apply_dither_if_needed and
\* its early return.
DitherRead ==
    /\ ~poisoned
    /\ output_stream
    /\ dither.pass.pc = "idle"
    /\ dither.passes < MaxPasses
    /\ dither' =
          [dither EXCEPT
             !.pass =
                 IF ~state.dither_enabled \/ state.dither_type = "off"
                 THEN NoPass
                 ELSE [pc |-> "run", dither_type |-> state.dither_type,
                       bits |-> state.dither_bits,
                       seed |-> dither.dither_rng,
                       channels |-> state.channels,
                       err1 |-> dither.dither_shape_err1,
                       err2 |-> dither.dither_shape_err2],
             !.changed = FALSE,
             !.passes = @ + 1]
    /\ UNCHANGED <<state, playVars, streamVars, resp>>
    /\ UNCHANGED <<slVars, ringVars, outVars, call, rendered, transcoders>>

\* Buffers fill_output_buffer leaves in the scratch: silence, and a stereo
\* frame with a fraction of an LSB.
ScratchBuffers == {<<0, 0>>, <<7, 0>>}

\* lib.rs 2187-2220: the variant on the scratch buffer, without the lock,
\* and the second lock section.
DitherWrite(samples) ==
    /\ ~poisoned
    /\ dither.pass.pc = "run"
    /\ LET pass == dither.pass
           effective_bits == Min(normalize_dither_bits(pass.bits), DeviceBits)
           out == RunDither(pass.dither_type, samples, effective_bits,
                            pass.channels, pass.seed, pass.err1, pass.err2)
           shaped == pass.dither_type \in {"tpdf_ns1", "tpdf_ns2"}
       IN  dither' =
             [dither EXCEPT
                !.dither_rng = out.seed,
                !.dither_shape_err1 = IF shaped THEN out.err1 ELSE @,
                !.dither_shape_err2 = IF shaped THEN out.err2 ELSE @,
                !.pass = NoPass]
    /\ UNCHANGED <<state, playVars, streamVars, resp>>
    /\ UNCHANGED <<slVars, ringVars, outVars, call, rendered, transcoders>>

NextDither ==
    \/ \E o \in OutcomesFor(output_stream) : Play(o)
    \/ \E req \in DitherRequests : ConfigureDither(req)
    \/ DitherRead
    \/ \E samples \in ScratchBuffers : DitherWrite(samples)

(***************************************************************************)
(* 4.G / 6  Two dispatcher threads that start and stop the transcoder,     *)
(* one lock section at a time, with the children and the reader threads    *)
(* told apart: stop_stream (lib.rs 1592-1604), the descriptor section,     *)
(* reset_ring_buffer, the spawn, start_stream_reader and its two stores.   *)
(***************************************************************************)
MaxSpawns == 2               \* transcoder children spawned in one run
NoChild == 0                 \* Option::None of a slot; children are 1, 2, ..

TranscoderOps == {"load_stream", "capture_start", "stop", "capture_stop"}

\* Thread 1 serves any of the four requests, thread 2 load_stream.
OpsOf(t) == IF t = 1 THEN TranscoderOps ELSE {"load_stream"}

HandlerIdle ==
    [pc |-> "idle", op |-> "none", child |-> NoChild, joining |-> NoChild]

\* lib.rs 596-597 of SharedState::new: both slots start empty.  alive are
\* the children that run, reading the reader threads that run (a reader
\* is named after the child whose stdout it reads).
NoTranscoders ==
    [alive |-> {}, reading |-> {}, process |-> NoChild, thread |-> NoChild,
     spawned |-> 0, h |-> [t \in HandlerThreads |-> HandlerIdle]]

notTranscoders ==
    <<slVars, ringVars, outVars, call, resp, rendered, dither, ctlq, poisoned,
      scenario, stream_process, stream_thread, stopper>>

Goto(t, pc) == [transcoders EXCEPT !.h[t].pc = pc]

\* lib.rs 1593-1595: take the child out of its slot and kill it
Killed(tr) ==
    [tr EXCEPT !.alive = @ \ {tr.process}, !.process = NoChild]

\* A handler is called.  lib.rs 2983-2991: stop_impl starts with its state
\* section; the other three start with stop_stream.
TBegin(t, op) ==
    /\ ~poisoned
    /\ transcoders.h[t].pc = "idle"
    /\ transcoders' =
          [transcoders EXCEPT !.h[t] = [HandlerIdle EXCEPT !.pc = "kill",
                                                          !.op = op]]
    /\ state' = IF op = "stop"
                THEN [state EXCEPT !.is_playing = FALSE, !.is_paused = FALSE,
                                   !.position = 0, !.played_frames = 0,
                                   !.mode = "idle", !.buffered_frames = 0]
                ELSE state
    /\ UNCHANGED <<rb, output_stream>>
    /\ UNCHANGED notTranscoders

TKill(t) ==
    /\ transcoders.h[t].pc = "kill"
    /\ transcoders' = [Killed(transcoders) EXCEPT !.h[t].pc = "take"]
    /\ UNCHANGED <<state, rb, output_stream>>
    /\ UNCHANGED notTranscoders

\* lib.rs 1596-1598: the stream_thread lock is held from take() to the end
\* of join().
JoinInProgress == \E t \in HandlerThreads : transcoders.h[t].pc = "joining"

TTake(t) ==
    /\ transcoders.h[t].pc = "take"
    /\ ~JoinInProgress
    /\ transcoders' =
          IF transcoders.thread = NoChild
          THEN Goto(t, "fields")
          ELSE [transcoders EXCEPT !.h[t].pc = "joining",
                                   !.h[t].joining = transcoders.thread,
                                   !.thread = NoChild]
    /\ UNCHANGED <<state, rb, output_stream>>
    /\ UNCHANGED notTranscoders

\* join() returns when the thread it was called on has ended.
TJoined(t) ==
    /\ transcoders.h[t].pc = "joining"
    /\ transcoders.h[t].joining \notin transcoders.reading
    /\ transcoders' = [transcoders EXCEPT !.h[t].pc = "fields",
                                          !.h[t].joining = NoChild]
    /\ UNCHANGED <<state, rb, output_stream>>
    /\ UNCHANGED notTranscoders

\* lib.rs 1599-1603: the state section of stop_stream; stop_impl returns.
TFields(t) ==
    /\ ~poisoned
    /\ transcoders.h[t].pc = "fields"
    /\ state' = StopStreamFields(state)
    /\ transcoders' =
          CASE transcoders.h[t].op = "stop" ->
                 [transcoders EXCEPT !.h[t] = HandlerIdle]
            [] transcoders.h[t].op = "capture_stop" -> Goto(t, "mode")
            [] OTHER -> Goto(t, "set")
    /\ UNCHANGED <<rb, output_stream>>
    /\ UNCHANGED notTranscoders

\* lib.rs 1429-1434: the state section of stop_capture_impl
TMode(t) ==
    /\ ~poisoned
    /\ transcoders.h[t].pc = "mode"
    /\ state' = [state EXCEPT !.mode = "idle", !.is_playing = FALSE,
                              !.is_paused = FALSE]
    /\ transcoders' = [transcoders EXCEPT !.h[t] = HandlerIdle]
    /\ UNCHANGED <<rb, output_stream>>
    /\ UNCHANGED notTranscoders

\* lib.rs 3322-3338, 1396-1412: the descriptor section
TSet(t) ==
    /\ ~poisoned
    /\ transcoders.h[t].pc = "set"
    /\ state' = StreamStart(state,
                            IF transcoders.h[t].op = "load_stream"
                            THEN "stream" ELSE "capture", 2)
    /\ transcoders' = Goto(t, "reset")
    /\ UNCHANGED <<rb, output_stream>>
    /\ UNCHANGED notTranscoders

\* lib.rs 1606-1618: reset_ring_buffer puts an empty ring behind the
\* producer and consumer handles every reader and callback holds.
TReset(t) ==
    /\ ~poisoned
    /\ transcoders.h[t].pc = "reset"
    /\ rb' = 0
    /\ transcoders' = Goto(t, "spawn")
    /\ UNCHANGED <<state, output_stream>>
    /\ UNCHANGED notTranscoders

\* lib.rs 3340-3349, 1414-1420: spawn_ffmpeg / spawn_capture_ffmpeg
TSpawn(t, spawn_ok) ==
    /\ transcoders.h[t].pc = "spawn"
    /\ IF spawn_ok
       THEN /\ transcoders.spawned < MaxSpawns
            /\ transcoders.h[t].op = "capture_start" => target_windows
            /\ transcoders' =
                  [transcoders EXCEPT
                     !.alive = @ \cup {transcoders.spawned + 1},
                     !.spawned = @ + 1,
                     !.h[t].child = transcoders.spawned + 1,
                     !.h[t].pc = "reader"]
            /\ UNCHANGED state
       ELSE /\ ~poisoned
            /\ state' = update_stream_status(state, "error", "spawn failed")
            /\ transcoders' = [transcoders EXCEPT !.h[t] = HandlerIdle]
    /\ UNCHANGED <<rb, output_stream>>
    /\ UNCHANGED notTranscoders

\* lib.rs 1538-1548: start_stream_reader up to thread::spawn
TReader(t) ==
    /\ ~poisoned
    /\ transcoders.h[t].pc = "reader"
    /\ state' = update_stream_status(state, "running", "none")
    /\ transcoders' =
          [transcoders EXCEPT !.reading = @ \cup {transcoders.h[t].child},
                              !.h[t].pc = "store_process"]
    /\ UNCHANGED <<rb, output_stream>>
    /\ UNCHANGED notTranscoders

\* lib.rs 1588: the child is stored over whatever the slot holds; a Child
\* that is dropped keeps running.
TStoreProcess(t) ==
    /\ transcoders.h[t].pc = "store_process"
    /\ transcoders' =
          [transcoders EXCEPT !.process = transcoders.h[t].child,
                              !.h[t].pc = "store_thread"]
    /\ UNCHANGED <<state, rb, output_stream>>
    /\ UNCHANGED notTranscoders

\* lib.rs 1589: the JoinHandle is stored over whatever the slot holds; a
\* JoinHandle that is dropped detaches its thread.
TStoreThread(t) ==
    /\ transcoders.h[t].pc = "store_thread"
    /\ ~JoinInProgress
    /\ transcoders' =
          [transcoders EXCEPT !.thread = transcoders.h[t].child,
                              !.h[t].pc = "ensure"]
    /\ UNCHANGED <<state, rb, output_stream>>
    /\ UNCHANGED notTranscoders

\* lib.rs 3351, 1422: ensure_output_stream, on a device with a range that
\* matches; the handler returns.
BuildMatches == [matched |-> TRUE, build_ok |-> TRUE]

TEnsure(t, o) ==
    /\ ~poisoned
    /\ transcoders.h[t].pc = "ensure"
    /\ state' = EnsureSharedState(state, output_stream, o)
    /\ output_stream' = EnsureSharedHeld(output_stream, o)
    /\ transcoders' = [transcoders EXCEPT !.h[t] = HandlerIdle]
    /\ UNCHANGED rb
    /\ UNCHANGED notTranscoders

\* lib.rs 1555-1569: the reader of child c pushes a sample (the frame
\* count is left to the reader of section 4.G / 4.K).
RPush(c) ==
    /\ c \in transcoders.reading
    /\ rb < RingSamples
    /\ rb' = rb + 1
    /\ UNCHANGED <<state, output_stream, transcoders>>
    /\ UNCHANGED notTranscoders

\* lib.rs 1557: read returns 0 once the child is gone; the thread ends.
REof(c) ==
    /\ c \in transcoders.reading
    /\ c \notin transcoders.alive
    /\ transcoders' = [transcoders EXCEPT !.reading = @ \ {c}]
    /\ UNCHANGED <<state, rb, output_stream>>
    /\ UNCHANGED notTranscoders

Children == 1..MaxSpawns

NextTranscoders ==
    \/ \E t \in HandlerThreads : \E op \in OpsOf(t) : TBegin(t, op)
    \/ \E t \in HandlerThreads : TKill(t)
    \/ \E t \in HandlerThreads : TTake(t)
    \/ \E t \in HandlerThreads : TJoined(t)
    \/ \E t \in HandlerThreads : TFields(t)
    \/ \E t \in HandlerThreads : TMode(t)
    \/ \E t \in HandlerThreads : TSet(t)
    \/ \E t \in HandlerThreads : TReset(t)
    \/ \E t \in HandlerThreads, spawn_ok \in BOOLEAN : TSpawn(t, spawn_ok)
    \/ \E t \in HandlerThreads : TReader(t)
    \/ \E t \in HandlerThreads : TStoreProcess(t)
    \/ \E t \in HandlerThreads : TStoreThread(t)
    \/ \E t \in HandlerThreads : TEnsure(t, BuildMatches)
    \/ \E c \in Children : RPush(c)
    \/ \E c \in Children : REof(c)

InitEngine ==
    /\ InitSeqlock
    /\ InitRing
    /\ InitPlayback
    /\ InitOutput
    /\ InitStream
    /\ resp = NoResponse
    /\ state = InitialState
    /\ rendered = NoRendered

InitParts ==
    /\ InitEngine
    /\ dither = DitherState(SeedOf(0))
    /\ transcoders = NoTranscoders

\* The parts that do not look at the build.
Init == InitParts /\ target_windows = FALSE /\ call = NoCall

\* The renderer slots on either build.
InitBuilds == InitParts /\ target_windows \in BOOLEAN /\ call = NoCall

\* The dither pass from each seed.
InitDither ==
    /\ InitEngine
    /\ target_windows = FALSE
    /\ call = NoCall
    /\ \E seed \in DitherSeeds : dither = DitherState(seed)
    /\ transcoders = NoTranscoders

\* The reader on each stream and each way to cut it.
InitReader ==
    /\ InitParts
    /\ target_windows = FALSE
    /\ \E n \in 0..MaxStream : call \in ReaderCallsFor(n)

\* One call of apply_gapless_trim on each of its inputs.
InitGapless == InitParts /\ target_windows = FALSE /\ call \in TrimCalls

\* One call of soft_limit_sample on each of its inputs.
InitLimiter == InitParts /\ target_windows = FALSE /\ call \in LimiterCalls

\* One call of a function of the signal path on each of its inputs.
InitSignal ==
    /\ InitParts
    /\ target_windows = FALSE
    /\ \/ call \in MixCalls
       \/ call \in QuantizeCalls
       \/ \E b \in DitherBitDepths : call \in DitherCallsFor(b)
       \/ call \in ConvertCalls

SpecSeqlock == Init /\ [][NextSeqlock]_vars

SpecRing == Init /\ [][NextRing]_vars

SpecPlayback == Init /\ [][NextPlayback]_vars

SpecOutput == InitBuilds /\ [][NextOutput]_vars

SpecConfigure == InitBuilds /\ [][NextConfigure]_vars

SpecRebuild == InitBuilds /\ [][NextRebuild]_vars

SpecReload == InitBuilds /\ [][NextReload]_vars

SpecStop == InitBuilds /\ [][NextStop]_vars

SpecErrors == InitBuilds /\ [][NextErrors]_vars

SpecQueue == Init /\ [][NextQueue]_vars

SpecGapless == InitGapless /\ [][NextGapless]_vars

SpecLimiter == InitLimiter /\ [][NextLimiter]_vars

SpecSignal == InitSignal /\ [][NextSignal]_vars

SpecOptimize == Init /\ [][NextOptimize]_vars

SpecSilence == Init /\ [][NextSilence]_vars

SpecQueueNext == Init /\ [][NextQueueNext]_vars

SpecTraverse == Init /\ [][NextTraverse]_vars

SpecDither == InitDither /\ [][NextDither]_vars

SpecReader == InitReader /\ [][NextReader]_vars

SpecTranscoders == InitBuilds /\ [][NextTranscoders]_vars

\* A reader that can see the end of its pipe does see it, and a join whose
\* thread has ended returns.
SpecTeardown ==
    /\ InitBuilds
    /\ [][NextTranscoders]_vars
    /\ \A c \in Children : WF_vars(REof(c))
    /\ \A t \in HandlerThreads : WF_vars(TJoined(t))

SpecDuration == InitBuilds /\ [][NextDuration]_vars

\* C1: whenever read_into accepts a snapshot (returns a nonzero count), the
\* bins it copied are the bin array written by one completed writer critical
\* section, the one that ended with the sequence value the reader accepted.
C1_AcceptedSnapshotIsOneWrite ==
    reader.ret > 0 =>
        /\ reader.last_seq \in DOMAIN published
        /\ reader.target = published[reader.last_seq]

Pending == Len(pushed) - Len(applied)

C3_Indices ==
    /\ ctl_write \in SlotIdx
    /\ ctl_read \in SlotIdx
    /\ Pending >= 0
    /\ Pending <= RingCapacity - 1
    /\ drainer.processed <= RingCapacity
    /\ (pusher.pc = "idle" /\ drainer.pc = "idle") =>
           (ctl_write - ctl_read) % RingCapacity = Pending

C3_FullRejects ==
    (pusher.pc = "load_read" /\ pusher'.pc # "load_read") =>
        IF (pusher.write + 1) % RingCapacity = ctl_read
        THEN /\ pusher'.ret = "false"
             /\ pusher'.pc = "idle"
             /\ UNCHANGED <<ctl_write, ctl_read, slots, pushed>>
        ELSE pusher'.ret = "none"

\* C3: with capacity C on both sides, write < C and read < C in every
\* reachable state, at most C-1 commands are pending (at rest their number is
\* (write - read) mod C), a push that finds (write+1) mod C = read returns
\* false and stores nothing, and one drain processes at most C commands.
C3_ControlRingBounds == []C3_Indices /\ [][C3_FullRejects]_vars

\* C3 witness: the ring is full (C-1 pending) and a push has been rejected.
C3_Witness ==
    /\ pusher.pc = "idle" /\ pusher.ret = "false"
    /\ Pending = RingCapacity - 1
    /\ ctl_write < ctl_read

\* C4: under every interleaving of pushes and drains the commands applied
\* are, in order, the commands whose push returned true: applied is a prefix
\* of pushed, the engine state is the initial state with exactly those
\* commands applied in that order, and once a drain has emptied the ring
\* every accepted command has been applied.
C4_AppliedInPushOrder ==
    /\ Len(applied) <= Len(pushed)
    /\ applied = SubSeq(pushed, 1, Len(applied))
    /\ state = ApplyAll(InitialState, applied)
    /\ (pusher.pc = "idle" /\ drainer.pc = "idle" /\ ctl_read = ctl_write) =>
           applied = pushed

\* C4 witness: more commands than the ring has slots went through it, among
\* them a VOLUME followed by a PLAY both of which changed the engine state.
C4_Witness ==
    /\ Len(applied) > RingCapacity
    /\ applied = pushed
    /\ \E i \in 1..(Len(applied) - 1) :
           /\ applied[i].cmd = CONTROL_CMD_VOLUME
           /\ applied[i + 1].cmd = CONTROL_CMD_PLAY
    /\ state.is_playing /\ state.volume = 3

\* The frames of the loaded data.
Frames(st) == st.data_len \div Max(st.channels, 1)

\* C5 as stated: after the burst PLAY, VOLUME(0.3), PAUSE, STOP and one
\* callback, is_playing = false, is_paused = false, position = 0 and
\* volume = 0.3.
C5_BurstThenCallback ==
    scenario = "burst_cb" =>
        /\ ~state.is_playing
        /\ ~state.is_paused
        /\ state.position = 0
        /\ state.volume = 3

C5_BurstStep ==
    (scenario = "burst" /\ scenario' = "burst_cb") =>
        /\ ctlq' = <<>>
        /\ ~state'.is_playing
        /\ ~state'.is_paused
        /\ state'.volume = 3
        /\ state'.position = IF state.mode = "file" THEN 0 ELSE state.position

\* C5 amended: the one callback after the burst drains all four commands and
\* leaves is_playing = false, is_paused = false and volume = 0.3; it leaves
\* position = 0 when the mode is "file" and leaves position as it was in
\* every other mode.
C5_BurstThenCallbackInFileMode == [][C5_BurstStep]_vars

\* C5 witness: the burst was drained by one callback with a file loaded.
C5_Witness ==
    /\ scenario = "burst_cb"
    /\ state.mode = "file"
    /\ state.data_len > 0
    /\ state.volume = 3

\* C6: in every reachable state data.len() is a multiple of channels and
\* position <= data.len() / channels.
C6_DataAlignedPositionInRange ==
    /\ state.data_len % Max(state.channels, 1) = 0
    /\ state.position <= Frames(state)

\* C7: when callbacks after load and play have exhausted the file,
\* is_playing is false and position equals the number of frames of the file.
C7_ExhaustedAtLastFrame ==
    scenario = "exhausted" =>
        /\ ~state.is_playing
        /\ state.position = Frames(state)

\* The selected device's host API supports exclusive output on this build.
Eligible(device_id, windows) ==
    \/ SnapshotHostApi(device_id, windows) = "Asio"
    \/ SnapshotHostApi(device_id, windows) = "Wasapi" /\ windows

\* C8: with no request in flight, the exclusive slot and the shared slot are
\* never both occupied, and the exclusive slot is occupied only if
\* exclusive_mode is true and the selected host API is exclusive-eligible.
C8_AtMostOneRenderer ==
    (\A t \in HandlerThreads : th[t].pc = "idle") =>
        /\ ~(exclusive_stream /\ output_stream)
        /\ exclusive_stream =>
               (state.exclusive_mode
                /\ Eligible(state.device_id, target_windows))

C9_ConfigureReturns ==
    (th[1].op = "configure_output" /\ th[1].pc # "idle"
     /\ th'[1].pc = "idle") =>
        LET requested == IF th[1].exclusive = "none" THEN th[1].was_exclusive
                         ELSE th[1].exclusive = "true"
        IN  /\ state'.device_id = th[1].device_id
            /\ state'.exclusive_mode =
                   (requested /\ Eligible(th[1].device_id, target_windows))
            /\ ~state'.exclusive_mode =>
                   /\ ~exclusive_stream'
                   /\ output_stream' \/ th'[1].result = "err"

C11_ExhaustedModeIdle == scenario = "exhausted" => state.mode = "idle"

\* C12 (its second half; load installs the decoded buffer whole in
\* InstallFile): whenever stop has just returned, the file buffer is empty.
C12_BufferEmptyAfterStop == scenario = "stopped" => state.data_len = 0

C13_LoadMissingStep ==
    LoadFails("File not found") =>
        /\ resp'.status = 400
        /\ UNCHANGED <<state, stream_process, stream_thread, rb, ctlq,
                       output_stream, exclusive_stream>>

\* C13: a load of a path that does not exist answers 400 and changes no
\* part of the engine: the state record (mode, transport, file buffer
\* length, stream fields), the transcoder child and reader slots, the ring
\* buffer and the renderer slots are as before.
C13_LoadMissingChangesNothing == [][C13_LoadMissingStep]_vars

\* C13 witness: the load of a missing path was answered while a transcoder
\* child and its reader were running in stream mode.
C13_Witness ==
    /\ resp = [op |-> "load", status |-> 400, count |-> 0]
    /\ state.mode = "stream"
    /\ stream_process = "running"
    /\ stream_thread.status = "running"
    /\ state.buffered_frames > 0

C14_DecodeFailureStep ==
    LoadFails("decode failed") =>
        /\ resp'.status = 500
        /\ UNCHANGED <<state, stream_process, stream_thread>>

\* C14: a load whose decode fails answers 500 and leaves the engine state
\* as before, the transcoder child, its reader thread, stream_status,
\* stream_url and buffered_frames included.
C14_DecodeFailureChangesNothing == [][C14_DecodeFailureStep]_vars

C15_SeekStep ==
    \A secs \in SeekSeconds :
        SeekRequest(secs) =>
            IF state.mode # "file" \/ secs * state.sample_rate >= Frames(state)
            THEN resp'.status = 400 /\ state' = state
            ELSE /\ resp'.status = 200
                 /\ state' = [state EXCEPT
                                 !.position = secs * state.sample_rate]
                 /\ state'.position < Frames(state')

C15_ServedWitness ==
    /\ resp = [op |-> "seek", status |-> 200, count |-> 0]
    /\ state.position > 0

\* C16 (S5): while a load_stream called with stream_status "idle" is in
\* progress the status is "idle" or "starting", and when its spawn has
\* failed the status is "error", stream_error is set and mode is "stream".
C16_SpawnFailureStatus ==
    /\ scenario = "s5" => state.stream_status \in {"idle", "starting"}
    /\ scenario = "s5_failed" =>
           /\ state.stream_status = "error"
           /\ state.stream_error # "none"
           /\ state.mode = "stream"

\* C17: when the reader thread's read of the transcoder's stdout has just
\* failed, stream_status is "error" and the reader thread has ended.
C17_ReadErrorStatus ==
    scenario = "read_error" =>
        /\ state.stream_status = "error"
        /\ stream_thread.status = "finished"

C18_QueueAddStep ==
    \A tracks \in TrackLists, replace \in BOOLEAN :
        QueueAdd(tracks, replace) =>
            LET queue == state'.queue
                path == state.file_path
                index == state'.queue_index
                hits == {i \in 1..Len(queue) : queue[i] = path}
            IN  /\ queue = IF replace THEN tracks ELSE state.queue \o tracks
                /\ state'.file_path = path
                /\ IF path # "none" /\ hits # {}
                   THEN /\ index + 1 \in hits
                        /\ \A i \in hits : index + 1 <= i
                   ELSE index = NoIndex
                /\ resp'.count = Len(queue)

\* C18: after every queue_add(tracks, replace) the queue is tracks (replace)
\* or the old queue followed by tracks, queue_index is the position of the
\* first entry whose path is the current file_path if there is one and None
\* otherwise (also when no file is loaded), and the count returned is the
\* length of the resulting queue.
C18_QueueAddIndex == [][C18_QueueAddStep]_vars

\* C18 witness: a queue_add without replace left a queue that holds the
\* loaded file's path twice, the first time not at the head.
C18_Witness ==
    /\ resp.op = "queue_add"
    /\ state.file_path = "b.flac"
    /\ state.queue = <<"a.flac", "b.flac", "b.flac">>
    /\ state.queue_index = 1
    /\ resp.count = 3

\* The frames first..last (counted from 0) of interleaved samples.
FrameRange(samples, channels, first, last) ==
    SubSeq(samples, first * channels + 1, (last + 1) * channels)

TrimmedFrames(c) ==
    LET frames == Len(c.samples) \div c.channels
    IN  /\ Len(c.out) = Max(0, frames - c.delay - c.padding) * c.channels
        /\ c.out = IF frames - c.delay - c.padding > 0
                   THEN FrameRange(c.samples, c.channels, c.delay,
                                   frames - c.padding - 1)
                   ELSE <<>>

\* C19 as stated: for every sample sequence, channel count, delay d and
\* padding p the result is frames d .. frames-p-1 of the input, which are
\* max(0, frames - d - p) * channels samples, and with d = p = 0 it is the
\* input.
C19_TrimForEverySequence ==
    (call.fn = "apply_gapless_trim" /\ call.done) =>
        /\ TrimmedFrames(call)
        /\ (call.delay = 0 /\ call.padding = 0) => call.out = call.samples

\* C19 amended: with d = p = 0 the result is the input unchanged, a
\* trailing partial frame included; with d > 0 or p > 0 it is frames
\* d .. frames-p-1 of the input in order, max(0, frames - d - p) * channels
\* samples.
C19_TrimResult ==
    (call.fn = "apply_gapless_trim" /\ call.done) =>
        IF call.delay = 0 /\ call.padding = 0
        THEN call.out = call.samples
        ELSE TrimmedFrames(call)

\* C19 witness: two stereo frames and a half trimmed by one frame at the
\* head leave the second frame, without the trailing half frame.
C19_Witness ==
    /\ call.fn = "apply_gapless_trim" /\ call.done
    /\ Len(call.samples) = 5 /\ call.channels = 2
    /\ call.delay = 1 /\ call.padding = 0
    /\ call.out = <<3, 4>>

\* C20: for every threshold in [0.7, 1.0] and every sample x,
\* soft_limit_sample returns x when |x| <= threshold, and when
\* |x| > threshold it returns a value of the sign of x whose magnitude is
\* strictly smaller than |x|.
C20_SoftLimitShrinks ==
    (call.fn = "soft_limit_sample" /\ call.done) =>
        IF Abs(call.sample) <= call.threshold
        THEN call.out.num = call.sample * call.out.den
        ELSE /\ Signum(call.out.num) = Signum(call.sample)
             /\ Abs(call.out.num) < Abs(call.sample) * call.out.den

\* C21: scenario S2: with the limiter enabled, threshold 0.9, volume 1.0 and
\* a file buffer of constant 1.0, every sample the callback outputs is
\* strictly less than 1.0 and strictly greater than 0.9 and the same on all
\* channels; with the limiter off and volume 0.5 the output is 0.5.
C21_ScenarioS2 ==
    (call.fn = "fill_output_buffer" /\ call.done /\ call.input = Unit) =>
        /\ (call.limiter_enabled /\ call.threshold = (9 * Unit) \div 10
               /\ call.volume = Unit) =>
              \A ch \in 1..call.channels :
                  /\ call.out[ch].num < Unit * call.out[ch].den
                  /\ 10 * call.out[ch].num > 9 * Unit * call.out[ch].den
                  /\ call.out[ch] = call.out[1]
        /\ (~call.limiter_enabled /\ call.volume = Unit \div 2) =>
              \A ch \in 1..call.channels :
                  call.out[ch] = [num |-> Unit \div 2, den |-> 1]

C24_DitherBounds ==
    (call.fn = "dither" /\ call.done) =>
        \A i \in 1..Len(call.out.samples) :
            /\ call.out.samples[i] >= -FullScale(call.bits)
            /\ call.out.samples[i] <= FullScale(call.bits)

\* C24 witness: a full-scale sample met positive noise, or an arbitrary
\* error history pushed the shaped value over the range, and the output is
\* full scale.
C24_Witness ==
    /\ call.fn = "dither" /\ call.done
    /\ call.variant = "tpdf_ns2"
    /\ call.channels = 2
    /\ call.err1[1] > 7
    /\ Len(call.samples) = 2
    /\ call.samples[1] = FullScale(call.bits)
    /\ call.out.samples[1] = FullScale(call.bits)
    /\ Len(call.out.samples) = 2

\* C25: after any sequence of configure_optimizations requests the stored
\* dither_type is one of off, tpdf, tpdf_ns1, tpdf_ns2 and dither_bits is 16
\* or 24: normalize_dither_type maps those four names case-insensitively to
\* themselves and every other string to tpdf, and bit values other than
\* 16 and 24 become 24.
C25_DitherSettingsNormalized ==
    /\ state.dither_type \in {"off", "tpdf", "tpdf_ns1", "tpdf_ns2"}
    /\ state.dither_bits \in {16, 24}
    /\ normalize_dither_type("TPDF_NS2") = "tpdf_ns2"
    /\ normalize_dither_type("unknown") = "tpdf"
    /\ \A b \in DitherBitRequests \ {16, 24} : normalize_dither_bits(b) = 24

\* C25 witness: requests have stored a shaped type and 16 bits.
C25_Witness ==
    /\ resp.op = "configure_optimizations"
    /\ state.dither_type = "tpdf_ns2"
    /\ state.dither_bits = 16
    /\ ~state.dither_enabled

\* C26: in every reachable state with mode = file, duration equals
\* (data.len() / channels) / working sample_rate, including after
\* resample_for_output succeeds or fails and after target_samplerate is
\* changed.
C26_DurationOfFile ==
    state.mode = "file" =>
        state.duration.num * state.sample_rate
            = (state.data_len \div state.channels) * state.duration.den

C27_WithinCapacity ==
    state.mode \in {"stream", "capture"} =>
        state.buffered_frames <= RingSamples \div Max(state.channels, 1)

C27_CallbackStep ==
    \A samples \in BufferSamples :
        (/\ Callback(samples)
         /\ state.mode \in {"stream", "capture"}
         /\ state.is_playing /\ ~state.is_paused /\ ctlq = <<>>) =>
            state'.buffered_frames =
                state.buffered_frames
                    - Consumed(samples) \div Max(state.channels, 1)

\* C27: under any interleaving of the transcoder reader thread (push a
\* sample, then increment buffered_frames every `channels` samples) with the
\* device callback (pop samples, then decrement), buffered_frames never
\* exceeds the ring buffer's frame capacity, and each callback lowers it by
\* exactly the number of whole frames that callback consumed.
C27_BufferedFramesTracksRing ==
    []C27_WithinCapacity /\ [][C27_CallbackStep]_vars

C28_ConfigureReturns ==
    (/\ th[1].op = "configure_output"
     /\ th[1].pc # "idle"
     /\ th'[1].pc = "idle") =>
        /\ output_stream' => built'.shared.device_id = th[1].device_id
        /\ exclusive_stream' =>
              /\ built'.exclusive.device_id = th[1].device_id
              /\ state'.exclusive_mode

\* C28: after configure_output(device_id, exclusive) returns, the active
\* renderer was built from the device_id and exclusive flag that
\* configure_output stored, even when another operation (play, load) runs
\* ensure_output_stream concurrently; no stream built from an older device
\* selection remains active.
C28_RebuildNotReordered == [][C28_ConfigureReturns]_vars

C29_LoadReturns ==
    (/\ th[1].op = "load"
     /\ th[1].pc # "idle"
     /\ th'[1].pc = "idle"
     /\ output_stream') =>
        built'.shared.channels = state'.channels

\* C29: load performs its steps in the order stop transcoder, decode,
\* optional resample, install buffer, reset ring, rebuild output, broadcast;
\* in particular the output stream active after a successful load was built
\* after the new buffer was installed, so its channel count matches the new
\* working descriptor even when a stream built for a previously loaded file
\* with a different channel count was already active.
C29_LoadRebuildsOutput == [][C29_LoadReturns]_vars

\* C30: in load and in resample_for_output, when the HQ (soxr) backend
\* returns an error and resampler_mode is auto, the conversion is restarted
\* from the original input with the polyphase backend at the configured
\* quality and only that backend's failure is surfaced; when resampler_mode
\* is soxr the HQ error is surfaced and the polyphase backend is never
\* attempted.
C30_ResamplerFallback ==
    (/\ call.fn = "convert" /\ call.done
     /\ Len(call.out.runs) > 0
     /\ call.out.runs[1].backend = "soxr"
     /\ ~call.hq_ok) =>
        /\ call.resampler_mode = "auto" =>
              /\ call.out.runs =
                    <<HqRun, [backend |-> "rubato", input |-> "original",
                              quality |-> call.resampler_quality]>>
              /\ call.out.result =
                    IF call.poly_ok THEN "ok" ELSE "rubato error"
        /\ call.resampler_mode = "soxr" =>
              /\ call.out.runs = <<HqRun>>
              /\ call.out.result = "soxr error"

\* C30 witness: in auto mode the HQ backend failed in load, the polyphase
\* backend ran at quality uhq and the conversion succeeded.
C30_Witness ==
    /\ call.fn = "convert" /\ call.done
    /\ call.site = "load"
    /\ call.resampler_mode = "auto" /\ call.resampler_quality = "uhq"
    /\ ~call.hq_ok
    /\ Len(call.out.runs) = 2
    /\ call.out.result = "ok"

C31_SilentStep ==
    \A samples \in BufferSamples :
        LET drained == DrainAll(state, ctlq)
        IN  (/\ Render(samples)
             /\ ~drained.is_playing \/ drained.is_paused) =>
                /\ \A i \in 1..samples : rendered'.data[i] = "zero"
                /\ Len(rendered'.data) = samples
                /\ state' = drained
                /\ rb' = rb
                /\ rendered'.underrun_count = rendered.underrun_count

C32_Advances ==
    QueueNextCalls /\ resp'.status = 200 =>
        /\ state'.queue_index = next_index(state)
        /\ state'.mode = "file"
        /\ state'.file_path = resp'.track
        /\ resp'.track = state.queue[next_index(state) + 1]
        /\ state'.is_playing /\ ~state'.is_paused

C32_AtEnd ==
    (/\ QueueNextCalls
     /\ Len(state.queue) = 0 \/ state.queue_index = Len(state.queue) - 1) =>
        /\ resp'.status = 400
        /\ state' = state

\* C32: queue_next moves queue_index to 0 when it is None and otherwise
\* forward by exactly one, loads that entry and starts playback (afterwards
\* mode = file, file_path is the returned track's path, is_playing = true,
\* is_paused = false); when the queue is empty or the index is already at
\* the last entry it returns 'queue empty' and leaves queue_index, file
\* buffer, mode and transport unchanged.
C32_QueueNextAdvances == [][C32_Advances /\ C32_AtEnd]_vars

\* C38: whenever queue_index is Some(i), i < queue.len() and queue[i].path
\* equals the currently loaded file_path, after any sequence of queue_add,
\* queue_next (including one whose load fails), load, stop and load_stream.
C38_IndexNamesLoadedFile ==
    state.queue_index # NoIndex =>
        /\ state.queue_index < Len(state.queue)
        /\ state.queue[state.queue_index + 1] = state.file_path

C39_RunBound ==
    resp.op = "queue_next" /\ resp.status = 200 =>
        resp.run <= Len(state.queue)

C39_Increasing ==
    QueueNextCalls /\ resp'.status = 200 =>
        state'.queue_index > state.queue_index

\* C39: queue traversal terminates: for every finite queue (including one
\* that holds the same path more than once) and every starting
\* queue_index, repeated queue_next calls whose loads succeed visit the
\* entries in increasing index order and return 'queue empty' after at
\* most queue.len() successful calls.
C39_TraversalTerminates == []C39_RunBound /\ [][C39_Increasing]_vars

\* C33: switching dither type resets the error history: after a
\* configure_optimizations request that changes dither_type, the
\* per-channel err1/err2 values are all zero when the next dither pass
\* starts, even if a dither pass of the device callback was in progress
\* when the type changed.
C33_TypeChangeResetsHistory ==
    dither.changed =>
        /\ dither.dither_shape_err1 = DitherZero
        /\ dither.dither_shape_err2 = DitherZero

\* C34: the playing <-> paused transitions occur only while mode is not
\* idle: starting from idle/stopped, no sequence of play, pause, stop, load,
\* load_stream, capture operations and control-ring commands reaches a
\* state with mode = idle and is_playing or is_paused true.
C34_TransportOnlyOutsideIdle ==
    state.mode = "idle" => ~state.is_playing /\ ~state.is_paused

C35_FileArmStep ==
    \A samples \in BufferSamples :
        LET drained == DrainAll(state, ctlq)
        IN  (/\ Callback(samples)
             /\ drained.mode = "file"
             /\ drained.is_playing /\ ~drained.is_paused) =>
                drained.position * Max(drained.channels, 1)
                    <= drained.data_len

\* C35: in file mode the device callback never reads the file buffer
\* outside its bounds (the start index position*channels of the slice it
\* copies from never exceeds data.len()), after any sequence of load, play,
\* pause, seek, stop, control-ring commands and callbacks, in particular
\* when play is issued again after the buffer was exhausted.
C35_ReadsInsideBuffer == [][C35_FileArmStep]_vars

\* C36: the transcoder reader keeps sample alignment across reads: for
\* every way the child's stdout byte stream is split into read() results,
\* the k-th float pushed toward the ring is decoded from bytes 4k..4k+3 of
\* the stream (k from 0); no byte is dropped and no float straddles bytes
\* that belong to two different samples.
C36_ReaderKeepsAlignment ==
    call.fn = "reader" /\ call.done =>
        /\ Len(call.out) = call.bytes \div SampleBytes
        /\ \A k \in 1..Len(call.out) :
              call.out[k] =
                  [b \in 1..SampleBytes |-> (k - 1) * SampleBytes + b]

\* The children and readers a handler has started and not yet stored.
C37_InHand ==
    {transcoders.h[t].child : t \in HandlerThreads} \ {NoChild}

\* C37: at most one transcoder child process and one reader thread exist
\* at any time, so the ring buffer has a single producer: after any
\* interleaving of load_stream, capture_start, capture_stop and stop
\* (including two such requests handled concurrently) no child or reader
\* is left running without being held in the two slots.
C37_SingleProducer ==
    /\ Cardinality(transcoders.alive) <= 1
    /\ Cardinality(transcoders.reading) <= 1
    /\ transcoders.alive \subseteq ({transcoders.process} \cup C37_InHand)
    /\ \A c \in transcoders.reading :
          \/ c \in ({transcoders.thread} \cup C37_InHand)
          \/ \E t \in HandlerThreads : transcoders.h[t].joining = c

\* C40: no deadlock and teardown terminates: for every interleaving of
\* dispatcher operations with the reader threads, stop_stream's join
\* returns once the child it took from the slot is killed and the stdout
\* of that child reaches EOF.
C40_TeardownTerminates ==
    \A t \in HandlerThreads :
        (transcoders.h[t].pc = "joining")
            ~> (transcoders.h[t].pc # "joining")

====
